---- MODULE Spec2Model ----
(***************************************************************************)
(* A model of dbz-lib: the DBZ metadata codec (Metadata::read / decode and *)
(* the encoder it reads back), the in-place metadata update, the record    *)
(* stream writer and the lazy record iterator DbzIntoIter.                 *)
(*                                                                         *)
(* Bytes are the integers 0..255 and every buffer is a sequence of bytes.  *)
(* A u64 is held as its eight base-256 digits, most significant first, so  *)
(* that the full 64-bit range is representable; to_le_bytes/from_le_bytes  *)
(* reverse the digits.  u16 and u32 values are integers.                   *)
(***************************************************************************)
EXTENDS Integers, Sequences, FiniteSets, TLC

-----------------------------------------------------------------------------
(* Bounds of the model (not program constants).                            *)
MaxSymbols == 2
MaxMappings == 1
MaxIntervals == 1
MaxRecords == 2
MaxSymbolChars == 3

-----------------------------------------------------------------------------
(* Program constants: read.rs, impl Metadata.                              *)
ZSTD_MAGIC_START == 407710288
ZSTD_MAGIC_END == 407710304
SCHEMA_VERSION == 1
VERSION_CSTR_LEN == 4
DATASET_CSTR_LEN == 16
RESERVED_LEN == 39
FIXED_METADATA_LEN == 96
SYMBOL_CSTR_LEN == 22
U32_SIZE == 4
U64_SIZE == 8
U16_SIZE == 2
PRELUDE_LEN == 8

Byte == 0..255

-----------------------------------------------------------------------------
(* Results.  kind is "Ok", "Err" (a returned error) or "Panic" (an abort:  *)
(* a slice index out of range, or an arithmetic overflow in a checked      *)
(* build).                                                                 *)
Ok(v) == [kind |-> "Ok", val |-> v, err |-> ""]
Err(e) == [kind |-> "Err", val |-> <<>>, err |-> e]
Panic(e) == [kind |-> "Panic", val |-> <<>>, err |-> e]
IsOk(r) == r.kind = "Ok"

-----------------------------------------------------------------------------
(* Byte-sequence helpers.                                                  *)
Zeros(n) == [k \in 1..n |-> 0]

Reverse(s) == [k \in 1..Len(s) |-> s[Len(s) + 1 - k]]

\* &buffer[pos..pos + n] with a 0-based pos; callers check the range first.
Slice(buf, pos, n) == SubSeq(buf, pos + 1, pos + n)

\* to_le_bytes of an unsigned integer of w bytes.
LeBytes(n, w) == [k \in 1..w |-> (n \div (256 ^ (k - 1))) % 256]

RECURSIVE LeSum(_)
LeSum(bytes) ==
    IF bytes = <<>> THEN 0 ELSE Head(bytes) + 256 * LeSum(Tail(bytes))

\* The largest integer the model holds.
MAX_INT == 127 * 16777216 + 16777215

\* from_le_bytes of a byte sequence of up to 4 bytes, as an integer.  A u32
\* of 2^31 or more is held as 2^31 - 1: wherever the parser reads one (a
\* magic, a length, a count, a packed date) it is far beyond every value it
\* accepts and is rejected exactly as 2^31 - 1 is.
LeValue(bytes) ==
    IF Len(bytes) >= 4 /\ bytes[4] >= 128 THEN MAX_INT ELSE LeSum(bytes)

\* FromLittleEndianSlice for u16/u32 on &buffer[pos..]: the slice index panics
\* when pos is past the end, split_at panics when fewer than w bytes remain.
FromLeSlice(buf, pos, w) ==
    IF pos + w > Len(buf)
    THEN Panic("slice index out of range")
    ELSE Ok(LeValue(Slice(buf, pos, w)))

\* FromLittleEndianSlice for u64: the value as base-256 digits, most
\* significant first.
FromLeSlice64(buf, pos) ==
    IF pos + U64_SIZE > Len(buf)
    THEN Panic("slice index out of range")
    ELSE Ok(Reverse(Slice(buf, pos, U64_SIZE)))

\* u64::to_le_bytes on the digit representation.
LeBytes64(digits) == Reverse(digits)

\* The u64 with a small value n (n < 256 ^ 3).
U64Of(n) == <<0, 0, 0, 0, 0, (n \div 65536) % 256, (n \div 256) % 256, n % 256>>
U64Max == [k \in 1..8 |-> 255]

RECURSIVE TrimEndNul(_)
\* str::trim_end_matches('\0').
TrimEndNul(s) ==
    IF s # <<>> /\ s[Len(s)] = 0 THEN TrimEndNul(SubSeq(s, 1, Len(s) - 1)) ELSE s

IsCont(b) == b >= 128 /\ b <= 191

RECURSIVE Utf8Valid(_)
\* std::str::from_utf8 succeeds: well-formed UTF-8 (no overlong forms, no
\* surrogates, nothing above U+10FFFF).
Utf8Valid(s) ==
    IF s = <<>> THEN TRUE
    ELSE LET b == s[1] n == Len(s) IN
         IF b < 128 THEN Utf8Valid(Tail(s))
         ELSE IF b >= 194 /\ b <= 223
              THEN n >= 2 /\ IsCont(s[2]) /\ Utf8Valid(SubSeq(s, 3, n))
         ELSE IF b >= 224 /\ b <= 239
              THEN /\ n >= 3
                   /\ IsCont(s[2]) /\ IsCont(s[3])
                   /\ (b = 224 => s[2] >= 160)
                   /\ (b = 237 => s[2] <= 159)
                   /\ Utf8Valid(SubSeq(s, 4, n))
         ELSE IF b >= 240 /\ b <= 244
              THEN /\ n >= 4
                   /\ IsCont(s[2]) /\ IsCont(s[3]) /\ IsCont(s[4])
                   /\ (b = 240 => s[2] >= 144)
                   /\ (b = 244 => s[2] <= 143)
                   /\ Utf8Valid(SubSeq(s, 5, n))
         ELSE FALSE

-----------------------------------------------------------------------------
(* Enum tables (databento_defs::enums): the numeric encoding of a variant  *)
(* is its position in the declaration order.                               *)
Schemas ==
    << "Mbo", "Mbp1", "Mbp10", "Tbbo", "Trades", "Ohlcv1S", "Ohlcv1M",
       "Ohlcv1H", "Ohlcv1D", "Definition", "Statistics", "Status" >>
Compressions == << "None", "ZStd" >>
STypes == << "ProductId", "Native", "Smart" >>

Range(seq) == {seq[k] : k \in 1..Len(seq)}

\* E::try_from(numeric) over a table.
EnumTryFrom(table, n) ==
    IF n >= 0 /\ n < Len(table) THEN Ok(table[n + 1]) ELSE Err("unknown enum value")

\* `variant as u16` / `variant as u8`.
EnumNum(table, v) == (CHOOSE k \in 1..Len(table) : table[k] = v) - 1

-----------------------------------------------------------------------------
(* Calendar dates (time::Date) as [year, month, day].                      *)
IsLeapYear(y) == (y % 4 = 0 /\ y % 100 # 0) \/ y % 400 = 0

DaysInMonth(y, m) ==
    IF m = 2 THEN (IF IsLeapYear(y) THEN 29 ELSE 28)
    ELSE IF m \in {4, 6, 9, 11} THEN 30 ELSE 31

\* The largest year time::Date accepts.
MAX_YEAR == 9999

\* decode_iso8601 as it would be if every day from 1 to 31 were taken for
\* a day of the month.
DecodeIso8601AnyDay(raw) ==
    LET year == raw \div 10000
        remaining == raw % 10000
        raw_month == remaining \div 100
        day == remaining % 100
    IN  IF raw_month < 1 \/ raw_month > 12
        THEN Err("Invalid month")
        ELSE IF year > MAX_YEAR \/ day < 1 \/ day > 31
        THEN Err("Couldn't convert to a valid date")
        ELSE Ok([year |-> year, month |-> raw_month, day |-> day])

\* decode_iso8601 as it would be if the month were split off as
\* remaining % 100 and the day as remaining / 100.
DecodeIso8601Swapped(raw) ==
    LET year == raw \div 10000
        remaining == raw % 10000
        raw_month == remaining % 100
        day == remaining \div 100
    IN  IF raw_month < 1 \/ raw_month > 12
        THEN Err("Invalid month")
        ELSE IF year > MAX_YEAR \/ day < 1 \/ day > DaysInMonth(year, raw_month)
        THEN Err("Couldn't convert to a valid date")
        ELSE Ok([year |-> year, month |-> raw_month, day |-> day])

\* Metadata::decode_iso8601.
DecodeIso8601(raw) ==
    LET year == raw \div 10000
        remaining == raw % 10000
        raw_month == remaining \div 100
        day == remaining % 100
    IN  IF raw_month < 1 \/ raw_month > 12
        THEN Err("Invalid month")
        ELSE IF year > MAX_YEAR \/ day < 1 \/ day > DaysInMonth(year, raw_month)
        THEN Err("Couldn't convert to a valid date")
        ELSE Ok([year |-> year, month |-> raw_month, day |-> day])

-----------------------------------------------------------------------------
(* Metadata parsing (read.rs).  A section result carries the cursor: pos   *)
(* is the value of *pos when the function returns.                         *)
SecOk(v, p) == [kind |-> "Ok", val |-> v, err |-> "", pos |-> p]
SecErr(e, p) == [kind |-> "Err", val |-> <<>>, err |-> e, pos |-> p]
SecPanic(e, p) == [kind |-> "Panic", val |-> <<>>, err |-> e, pos |-> p]

\* decode_symbol as it would be without the trim of the NUL padding.
DecodeSymbolNoTrim(buffer, pos) ==
    IF pos + SYMBOL_CSTR_LEN > Len(buffer)
    THEN SecPanic("slice index out of range", pos)
    ELSE LET symbol_slice == Slice(buffer, pos, SYMBOL_CSTR_LEN) IN
         IF ~Utf8Valid(symbol_slice)
         THEN SecErr("Failed to decode bytes", pos)
         ELSE SecOk(symbol_slice, pos + SYMBOL_CSTR_LEN)

\* decode_symbol as it would be if the cursor were advanced before the
\* UTF-8 check.
DecodeSymbolAdvancesFirst(buffer, pos) ==
    IF pos + SYMBOL_CSTR_LEN > Len(buffer)
    THEN SecPanic("slice index out of range", pos)
    ELSE LET symbol_slice == Slice(buffer, pos, SYMBOL_CSTR_LEN) IN
         IF ~Utf8Valid(symbol_slice)
         THEN SecErr("Failed to decode bytes", pos + SYMBOL_CSTR_LEN)
         ELSE SecOk(TrimEndNul(symbol_slice), pos + SYMBOL_CSTR_LEN)

\* Metadata::decode_symbol.
DecodeSymbol(buffer, pos) ==
    IF pos + SYMBOL_CSTR_LEN > Len(buffer)
    THEN SecPanic("slice index out of range", pos)
    ELSE LET symbol_slice == Slice(buffer, pos, SYMBOL_CSTR_LEN) IN
         IF ~Utf8Valid(symbol_slice)
         THEN SecErr("Failed to decode bytes", pos)
         ELSE SecOk(TrimEndNul(symbol_slice), pos + SYMBOL_CSTR_LEN)

RECURSIVE DecodeSymbolLoop(_, _, _, _)
\* The `for i in 0..count` loop of decode_repeated_symbol_cstr: left is the
\* number of symbols still to read, res the symbols pushed so far.
DecodeSymbolLoop(buffer, pos, left, res) ==
    IF left = 0 THEN SecOk(res, pos)
    ELSE LET s == DecodeSymbol(buffer, pos) IN
         IF s.kind = "Ok"
         THEN DecodeSymbolLoop(buffer, s.pos, left - 1, Append(res, s.val))
         ELSE IF s.kind = "Err"
         THEN SecErr("Failed to decode symbol", s.pos)
         ELSE s

\* Metadata::decode_repeated_symbol_cstr.
DecodeRepeatedSymbolCstr(buffer, pos) ==
    IF pos + U32_SIZE > Len(buffer)
    THEN SecErr("Unexpected end of metadata buffer", pos)
    ELSE LET count == LeValue(Slice(buffer, pos, U32_SIZE))
             pos1 == pos + U32_SIZE
         IN  \* pos + count * SYMBOL_CSTR_LEN > buffer.len(), without the product
             IF count > (Len(buffer) - pos1) \div SYMBOL_CSTR_LEN
             THEN SecErr("Unexpected end of metadata buffer", pos1)
             ELSE DecodeSymbolLoop(buffer, pos1, count, <<>>)

MIN_SYMBOL_MAPPING_ENCODED_SIZE == SYMBOL_CSTR_LEN + U32_SIZE
MAPPING_INTERVAL_ENCODED_SIZE == U32_SIZE * 2 + SYMBOL_CSTR_LEN

RECURSIVE DecodeIntervalLoop(_, _, _, _)
\* The `for i in 0..interval_count` loop of decode_symbol_mapping.
DecodeIntervalLoop(buffer, pos, left, res) ==
    IF left = 0 THEN SecOk(res, pos)
    ELSE LET raw_start == FromLeSlice(buffer, pos, U32_SIZE)
             pos1 == pos + U32_SIZE
         IN
         IF raw_start.kind # "Ok" THEN SecPanic(raw_start.err, pos)
         ELSE LET start_date == DecodeIso8601(raw_start.val) IN
         IF start_date.kind # "Ok"
         THEN SecErr("Failed to parse start date of mapping interval", pos1)
         ELSE LET raw_end == FromLeSlice(buffer, pos1, U32_SIZE)
                  pos2 == pos1 + U32_SIZE
              IN
         IF raw_end.kind # "Ok" THEN SecPanic(raw_end.err, pos1)
         ELSE LET end_date == DecodeIso8601(raw_end.val) IN
         IF end_date.kind # "Ok"
         THEN SecErr("Failed to parse end date of mapping interval", pos2)
         ELSE LET symbol == DecodeSymbol(buffer, pos2) IN
         IF symbol.kind = "Panic" THEN symbol
         ELSE IF symbol.kind = "Err"
         THEN SecErr("Failed to parse symbol for mapping interval", symbol.pos)
         ELSE DecodeIntervalLoop(buffer, symbol.pos, left - 1,
                  Append(res, [start_date |-> start_date.val,
                               end_date |-> end_date.val,
                               symbol |-> symbol.val]))

\* Metadata::decode_symbol_mapping.
DecodeSymbolMapping(buffer, pos) ==
    IF pos + MIN_SYMBOL_MAPPING_ENCODED_SIZE > Len(buffer)
    THEN SecErr("Unexpected end of metadata buffer while parsing symbol mapping", pos)
    ELSE LET native == DecodeSymbol(buffer, pos) IN
         IF native.kind = "Panic" THEN native
         ELSE IF native.kind = "Err"
         THEN SecErr("Couldn't parse native symbol", native.pos)
         ELSE LET ic == FromLeSlice(buffer, native.pos, U32_SIZE)
                  pos1 == native.pos + U32_SIZE
              IN
         IF ic.kind # "Ok" THEN SecPanic(ic.err, native.pos)
         ELSE \* pos + interval_count * MAPPING_INTERVAL_ENCODED_SIZE > buffer.len(),
              \* without the product
         IF ic.val > (Len(buffer) - pos1) \div MAPPING_INTERVAL_ENCODED_SIZE
         THEN SecErr("Symbol mapping interval_count doesn't match size of buffer", pos1)
         ELSE LET intervals == DecodeIntervalLoop(buffer, pos1, ic.val, <<>>) IN
         IF intervals.kind # "Ok" THEN intervals
         ELSE SecOk([native |-> native.val, intervals |-> intervals.val],
                    intervals.pos)

RECURSIVE DecodeMappingLoop(_, _, _, _)
\* The `for i in 0..count` loop of decode_symbol_mappings.
DecodeMappingLoop(buffer, pos, left, res) ==
    IF left = 0 THEN SecOk(res, pos)
    ELSE LET m == DecodeSymbolMapping(buffer, pos) IN
         IF m.kind = "Ok"
         THEN DecodeMappingLoop(buffer, m.pos, left - 1, Append(res, m.val))
         ELSE IF m.kind = "Err"
         THEN SecErr("Failed to parse symbol mapping", m.pos)
         ELSE m

\* Metadata::decode_symbol_mappings.
DecodeSymbolMappings(buffer, pos) ==
    IF pos + U32_SIZE > Len(buffer)
    THEN SecErr("Unexpected end of metadata buffer", pos)
    ELSE LET count == LeValue(Slice(buffer, pos, U32_SIZE))
             pos1 == pos + U32_SIZE
         IN  DecodeMappingLoop(buffer, pos1, count, <<>>)

DBZ == << 68, 66, 90 >>

\* decode as it would be if a schema definition were skipped over instead
\* of refused.
DecodeVariableSkipsDefinition(buffer, pos, fixed) ==
    LET sdl == FromLeSlice(buffer, pos, U32_SIZE) IN
    IF sdl.kind # "Ok" THEN Panic(sdl.err)
    ELSE LET pos1 == pos + U32_SIZE + sdl.val
             symbols == DecodeRepeatedSymbolCstr(buffer, pos1)
         IN
    IF symbols.kind = "Panic" THEN Panic(symbols.err)
    ELSE IF symbols.kind = "Err" THEN Err("Failed to parse symbols")
    ELSE LET partial == DecodeRepeatedSymbolCstr(buffer, symbols.pos) IN
    IF partial.kind = "Panic" THEN Panic(partial.err)
    ELSE IF partial.kind = "Err" THEN Err("Failed to parse partial")
    ELSE LET not_found == DecodeRepeatedSymbolCstr(buffer, partial.pos) IN
    IF not_found.kind = "Panic" THEN Panic(not_found.err)
    ELSE IF not_found.kind = "Err" THEN Err("Failed to parse not_found")
    ELSE LET mappings == DecodeSymbolMappings(buffer, not_found.pos) IN
    IF mappings.kind = "Panic" THEN Panic(mappings.err)
    ELSE IF mappings.kind = "Err" THEN Err(mappings.err)
    ELSE Ok([version |-> fixed.version,
             dataset |-> fixed.dataset,
             schema |-> fixed.schema,
             start |-> fixed.start,
             end |-> fixed.end,
             limit |-> fixed.limit,
             record_count |-> fixed.record_count,
             compression |-> fixed.compression,
             stype_in |-> fixed.stype_in,
             stype_out |-> fixed.stype_out,
             symbols |-> symbols.val,
             partial |-> partial.val,
             not_found |-> not_found.val,
             mappings |-> mappings.val])

\* Metadata::decode, from the schema-definition length on: pos stands after
\* the reserved bytes.
DecodeVariable(buffer, pos, fixed) ==
    LET sdl == FromLeSlice(buffer, pos, U32_SIZE) IN
    IF sdl.kind # "Ok" THEN Panic(sdl.err)
    ELSE IF sdl.val # 0
    THEN Err("This version of dbz can't parse schema definitions")
    ELSE LET pos1 == pos + U32_SIZE + sdl.val
             symbols == DecodeRepeatedSymbolCstr(buffer, pos1)
         IN
    IF symbols.kind = "Panic" THEN Panic(symbols.err)
    ELSE IF symbols.kind = "Err" THEN Err("Failed to parse symbols")
    ELSE LET partial == DecodeRepeatedSymbolCstr(buffer, symbols.pos) IN
    IF partial.kind = "Panic" THEN Panic(partial.err)
    ELSE IF partial.kind = "Err" THEN Err("Failed to parse partial")
    ELSE LET not_found == DecodeRepeatedSymbolCstr(buffer, partial.pos) IN
    IF not_found.kind = "Panic" THEN Panic(not_found.err)
    ELSE IF not_found.kind = "Err" THEN Err("Failed to parse not_found")
    ELSE LET mappings == DecodeSymbolMappings(buffer, not_found.pos) IN
    IF mappings.kind = "Panic" THEN Panic(mappings.err)
    ELSE IF mappings.kind = "Err" THEN Err(mappings.err)
    ELSE Ok([version |-> fixed.version,
             dataset |-> fixed.dataset,
             schema |-> fixed.schema,
             start |-> fixed.start,
             end |-> fixed.end,
             limit |-> fixed.limit,
             record_count |-> fixed.record_count,
             compression |-> fixed.compression,
             stype_in |-> fixed.stype_in,
             stype_out |-> fixed.stype_out,
             symbols |-> symbols.val,
             partial |-> partial.val,
             not_found |-> not_found.val,
             mappings |-> mappings.val])

\* The cursors as they would be with the schema taken for a 4-byte field.
FieldPosWideSchema ==
    LET version == 0
        dataset == version + VERSION_CSTR_LEN
        schema == dataset + DATASET_CSTR_LEN
        start == schema + U32_SIZE
        end == start + U64_SIZE
        limit == end + U64_SIZE
        record_count == limit + U64_SIZE
        compression == record_count + U64_SIZE
        stype_in == compression + 1
        stype_out == stype_in + 1
        reserved == stype_out + 1
        sdl == reserved + RESERVED_LEN
    IN  [version |-> version, dataset |-> dataset, schema |-> schema,
         start |-> start, end |-> end, limit |-> limit,
         record_count |-> record_count, compression |-> compression,
         stype_in |-> stype_in, stype_out |-> stype_out, reserved |-> reserved,
         sdl |-> sdl]

\* The cursor of Metadata::decode at each field of the fixed region: pos
\* starts at 0 and is advanced by the size of each field read.
FieldPos ==
    LET version == 0
        dataset == version + VERSION_CSTR_LEN
        schema == dataset + DATASET_CSTR_LEN
        start == schema + U16_SIZE
        end == start + U64_SIZE
        limit == end + U64_SIZE
        record_count == limit + U64_SIZE
        compression == record_count + U64_SIZE
        stype_in == compression + 1
        stype_out == stype_in + 1
        reserved == stype_out + 1
        sdl == reserved + RESERVED_LEN
    IN  [version |-> version, dataset |-> dataset, schema |-> schema,
         start |-> start, end |-> end, limit |-> limit,
         record_count |-> record_count, compression |-> compression,
         stype_in |-> stype_in, stype_out |-> stype_out, reserved |-> reserved,
         sdl |-> sdl]

\* decode as it would be without the check of the version byte.
DecodeAnyVersion(metadata_buffer) ==
    LET buf == metadata_buffer
        pos == FieldPos
    IN
    IF Len(buf) < pos.reserved THEN Panic("slice index out of range")
    ELSE IF Slice(buf, pos.version, 3) # DBZ THEN Err("Invalid version string")
    ELSE IF ~Utf8Valid(Slice(buf, pos.dataset, DATASET_CSTR_LEN))
    THEN Err("Failed to read dataset from metadata")
    ELSE LET schema == EnumTryFrom(Schemas, LeValue(Slice(buf, pos.schema, U16_SIZE)))
             compression == EnumTryFrom(Compressions, buf[pos.compression + 1])
             stype_in == EnumTryFrom(STypes, buf[pos.stype_in + 1])
             stype_out == EnumTryFrom(STypes, buf[pos.stype_out + 1])
         IN
    IF schema.kind # "Ok" THEN Err("Failed to read schema")
    ELSE IF compression.kind # "Ok" THEN Err("Failed to parse compression")
    ELSE IF stype_in.kind # "Ok" THEN Err("Failed to read stype_in")
    ELSE IF stype_out.kind # "Ok" THEN Err("Failed to read stype_out")
    ELSE DecodeVariable(buf, pos.sdl,
            [version |-> buf[pos.version + 3 + 1],
             dataset |-> TrimEndNul(Slice(buf, pos.dataset, DATASET_CSTR_LEN)),
             schema |-> schema.val,
             start |-> FromLeSlice64(buf, pos.start).val,
             end |-> FromLeSlice64(buf, pos.end).val,
             limit |-> FromLeSlice64(buf, pos.limit).val,
             record_count |-> FromLeSlice64(buf, pos.record_count).val,
             compression |-> compression.val,
             stype_in |-> stype_in.val,
             stype_out |-> stype_out.val])

\* decode as it would be if the schema were read as one byte.
DecodeSchemaByte(metadata_buffer) ==
    LET buf == metadata_buffer
        pos == FieldPos
    IN
    IF Len(buf) < pos.reserved THEN Panic("slice index out of range")
    ELSE IF Slice(buf, pos.version, 3) # DBZ THEN Err("Invalid version string")
    ELSE IF buf[pos.version + 3 + 1] > SCHEMA_VERSION
    THEN Err("Can't read newer version of DBZ")
    ELSE IF ~Utf8Valid(Slice(buf, pos.dataset, DATASET_CSTR_LEN))
    THEN Err("Failed to read dataset from metadata")
    ELSE LET schema == EnumTryFrom(Schemas, buf[pos.schema + 1])
             compression == EnumTryFrom(Compressions, buf[pos.compression + 1])
             stype_in == EnumTryFrom(STypes, buf[pos.stype_in + 1])
             stype_out == EnumTryFrom(STypes, buf[pos.stype_out + 1])
         IN
    IF schema.kind # "Ok" THEN Err("Failed to read schema")
    ELSE IF compression.kind # "Ok" THEN Err("Failed to parse compression")
    ELSE IF stype_in.kind # "Ok" THEN Err("Failed to read stype_in")
    ELSE IF stype_out.kind # "Ok" THEN Err("Failed to read stype_out")
    ELSE DecodeVariable(buf, pos.sdl,
            [version |-> buf[pos.version + 3 + 1],
             dataset |-> TrimEndNul(Slice(buf, pos.dataset, DATASET_CSTR_LEN)),
             schema |-> schema.val,
             start |-> FromLeSlice64(buf, pos.start).val,
             end |-> FromLeSlice64(buf, pos.end).val,
             limit |-> FromLeSlice64(buf, pos.limit).val,
             record_count |-> FromLeSlice64(buf, pos.record_count).val,
             compression |-> compression.val,
             stype_in |-> stype_in.val,
             stype_out |-> stype_out.val])

\* Metadata::decode: the fixed region, field by field at the cursor, then
\* the variable-length sections.  Metadata::read passes a buffer of at
\* least FIXED_METADATA_LEN bytes.
Decode(metadata_buffer) ==
    LET buf == metadata_buffer
        pos == FieldPos
    IN
    IF Len(buf) < pos.reserved THEN Panic("slice index out of range")
    ELSE IF Slice(buf, pos.version, 3) # DBZ THEN Err("Invalid version string")
    ELSE IF buf[pos.version + 3 + 1] > SCHEMA_VERSION
    THEN Err("Can't read newer version of DBZ")
    ELSE IF ~Utf8Valid(Slice(buf, pos.dataset, DATASET_CSTR_LEN))
    THEN Err("Failed to read dataset from metadata")
    ELSE LET schema == EnumTryFrom(Schemas, LeValue(Slice(buf, pos.schema, U16_SIZE)))
             compression == EnumTryFrom(Compressions, buf[pos.compression + 1])
             stype_in == EnumTryFrom(STypes, buf[pos.stype_in + 1])
             stype_out == EnumTryFrom(STypes, buf[pos.stype_out + 1])
         IN
    IF schema.kind # "Ok" THEN Err("Failed to read schema")
    ELSE IF compression.kind # "Ok" THEN Err("Failed to parse compression")
    ELSE IF stype_in.kind # "Ok" THEN Err("Failed to read stype_in")
    ELSE IF stype_out.kind # "Ok" THEN Err("Failed to read stype_out")
    ELSE DecodeVariable(buf, pos.sdl,
            [version |-> buf[pos.version + 3 + 1],
             dataset |-> TrimEndNul(Slice(buf, pos.dataset, DATASET_CSTR_LEN)),
             schema |-> schema.val,
             start |-> FromLeSlice64(buf, pos.start).val,
             end |-> FromLeSlice64(buf, pos.end).val,
             limit |-> FromLeSlice64(buf, pos.limit).val,
             record_count |-> FromLeSlice64(buf, pos.record_count).val,
             compression |-> compression.val,
             stype_in |-> stype_in.val,
             stype_out |-> stype_out.val])

\* Metadata::read on a byte source.  The result also tells how many bytes of
\* the source were consumed (read_exact on a short source consumes what is
\* there).
ReadResult(r, n) == [kind |-> r.kind, val |-> r.val, err |-> r.err, consumed |-> n]

\* Metadata::read as it would be with the end of the magic range taken as
\* inclusive and the frame-size check made after the payload is read.
MetadataReadWideMagic(source) ==
    IF Len(source) < PRELUDE_LEN
    THEN ReadResult(Err("Failed to read metadata prelude"), Len(source))
    ELSE LET magic == LeValue(Slice(source, 0, 4))
             frame_size == LeValue(Slice(source, 4, 4))
         IN
    IF ~(magic >= ZSTD_MAGIC_START /\ magic <= ZSTD_MAGIC_END)
    THEN ReadResult(Err("Invalid metadata: no zstd magic number"), PRELUDE_LEN)
    ELSE IF Len(source) < PRELUDE_LEN + frame_size
    THEN ReadResult(Err("Failed to read metadata"), Len(source))
    ELSE IF frame_size < FIXED_METADATA_LEN
    THEN ReadResult(Err("Frame length cannot be shorter than the fixed metadata size"),
                    PRELUDE_LEN + frame_size)
    ELSE ReadResult(Decode(Slice(source, PRELUDE_LEN, frame_size)),
                    PRELUDE_LEN + frame_size)

\* Metadata::read as it would be with read in place of read_exact for the
\* payload: a short source is decoded as far as it goes.
MetadataReadShort(source) ==
    IF Len(source) < PRELUDE_LEN
    THEN ReadResult(Err("Failed to read metadata prelude"), Len(source))
    ELSE LET magic == LeValue(Slice(source, 0, 4))
             frame_size == LeValue(Slice(source, 4, 4))
         IN
    IF ~(magic >= ZSTD_MAGIC_START /\ magic < ZSTD_MAGIC_END)
    THEN ReadResult(Err("Invalid metadata: no zstd magic number"), PRELUDE_LEN)
    ELSE IF frame_size < FIXED_METADATA_LEN
    THEN ReadResult(Err("Frame length cannot be shorter than the fixed metadata size"),
                    PRELUDE_LEN)
    ELSE IF Len(source) < PRELUDE_LEN + frame_size
    THEN ReadResult(Decode(SubSeq(source, PRELUDE_LEN + 1, Len(source))
                               \o Zeros(PRELUDE_LEN + frame_size - Len(source))),
                    Len(source))
    ELSE ReadResult(Decode(Slice(source, PRELUDE_LEN, frame_size)),
                    PRELUDE_LEN + frame_size)

\* Metadata::read as it would be if the payload were read to the end of the
\* source instead of frame_size bytes of it.
MetadataReadToEnd(source) ==
    IF Len(source) < PRELUDE_LEN
    THEN ReadResult(Err("Failed to read metadata prelude"), Len(source))
    ELSE LET magic == LeValue(Slice(source, 0, 4))
             frame_size == LeValue(Slice(source, 4, 4))
         IN
    IF ~(magic >= ZSTD_MAGIC_START /\ magic < ZSTD_MAGIC_END)
    THEN ReadResult(Err("Invalid metadata: no zstd magic number"), PRELUDE_LEN)
    ELSE IF frame_size < FIXED_METADATA_LEN
    THEN ReadResult(Err("Frame length cannot be shorter than the fixed metadata size"),
                    PRELUDE_LEN)
    ELSE IF Len(source) < PRELUDE_LEN + frame_size
    THEN ReadResult(Err("Failed to read metadata"), Len(source))
    ELSE ReadResult(Decode(SubSeq(source, PRELUDE_LEN + 1, Len(source))), Len(source))

MetadataRead(source) ==
    IF Len(source) < PRELUDE_LEN
    THEN ReadResult(Err("Failed to read metadata prelude"), Len(source))
    ELSE LET magic == LeValue(Slice(source, 0, 4))
             frame_size == LeValue(Slice(source, 4, 4))
         IN
    IF ~(magic >= ZSTD_MAGIC_START /\ magic < ZSTD_MAGIC_END)
    THEN ReadResult(Err("Invalid metadata: no zstd magic number"), PRELUDE_LEN)
    ELSE IF frame_size < FIXED_METADATA_LEN
    THEN ReadResult(Err("Frame length cannot be shorter than the fixed metadata size"),
                    PRELUDE_LEN)
    ELSE IF Len(source) < PRELUDE_LEN + frame_size
    THEN ReadResult(Err("Failed to read metadata"), Len(source))
    ELSE ReadResult(Decode(Slice(source, PRELUDE_LEN, frame_size)),
                    PRELUDE_LEN + frame_size)

-----------------------------------------------------------------------------
(* The storage Metadata::decode reserves: each Vec::with_capacity(count)   *)
(* it executes, as [what, count, at, size] with `at` the cursor behind the *)
(* count and `size` the encoded size of one element.                       *)

\* decode_repeated_symbol_cstr: Vec::with_capacity(count) behind both
\* bounds checks.
ReservedBySymbols(buffer, pos) ==
    IF pos + U32_SIZE > Len(buffer) THEN <<>>
    ELSE LET count == LeValue(Slice(buffer, pos, U32_SIZE))
             pos1 == pos + U32_SIZE
         IN  IF count > (Len(buffer) - pos1) \div SYMBOL_CSTR_LEN THEN <<>>
             ELSE << [what |-> "symbols", count |-> count, at |-> pos1,
                      size |-> SYMBOL_CSTR_LEN] >>

\* decode_symbol_mapping: Vec::with_capacity(interval_count) behind the
\* check of the interval count.
ReservedByMapping(buffer, pos) ==
    IF pos + MIN_SYMBOL_MAPPING_ENCODED_SIZE > Len(buffer) THEN <<>>
    ELSE LET native == DecodeSymbol(buffer, pos) IN
         IF native.kind # "Ok" THEN <<>>
         ELSE LET interval_count == LeValue(Slice(buffer, native.pos, U32_SIZE))
                  pos1 == native.pos + U32_SIZE
              IN
         IF interval_count > (Len(buffer) - pos1) \div MAPPING_INTERVAL_ENCODED_SIZE
         THEN <<>>
         ELSE << [what |-> "intervals", count |-> interval_count, at |-> pos1,
                  size |-> MAPPING_INTERVAL_ENCODED_SIZE] >>

RECURSIVE ReservedByMappingLoop(_, _, _)
\* The loop of decode_symbol_mappings: what each decode_symbol_mapping
\* reserves, up to the first one that fails.
ReservedByMappingLoop(buffer, pos, left) ==
    IF left = 0 THEN <<>>
    ELSE LET m == DecodeSymbolMapping(buffer, pos) IN
         ReservedByMapping(buffer, pos)
             \o (IF m.kind = "Ok" THEN ReservedByMappingLoop(buffer, m.pos, left - 1)
                 ELSE <<>>)

\* decode_symbol_mappings: Vec::with_capacity(count) right behind the read
\* of the count, then the loop.
ReservedByMappings(buffer, pos) ==
    IF pos + U32_SIZE > Len(buffer) THEN <<>>
    ELSE LET count == LeValue(Slice(buffer, pos, U32_SIZE))
             pos1 == pos + U32_SIZE
         IN  << [what |-> "mappings", count |-> count, at |-> pos1,
                 size |-> MIN_SYMBOL_MAPPING_ENCODED_SIZE] >>
                 \o ReservedByMappingLoop(buffer, pos1, count)

\* The errors Metadata::decode returns before it reaches the sections.
FixedRegionErrors ==
    { "Invalid version string", "Can't read newer version of DBZ",
      "Failed to read dataset from metadata", "Failed to read schema",
      "Failed to parse compression", "Failed to read stype_in",
      "Failed to read stype_out", "This version of dbz can't parse schema definitions" }

\* Metadata::decode: the reservations of the four sections, each section
\* reached only if the ones before it were parsed.
Reserved(metadata_buffer) ==
    LET buf == metadata_buffer
        r == Decode(buf)
        pos0 == FieldPos.sdl + U32_SIZE
        symbols == DecodeRepeatedSymbolCstr(buf, pos0)
        partial == DecodeRepeatedSymbolCstr(buf, symbols.pos)
        not_found == DecodeRepeatedSymbolCstr(buf, partial.pos)
    IN  IF r.kind = "Panic" \/ r.err \in FixedRegionErrors THEN <<>>
        ELSE ReservedBySymbols(buf, pos0)
             \o (IF symbols.kind # "Ok" THEN <<>>
                 ELSE ReservedBySymbols(buf, symbols.pos)
             \o (IF partial.kind # "Ok" THEN <<>>
                 ELSE ReservedBySymbols(buf, partial.pos)
             \o (IF not_found.kind # "Ok" THEN <<>>
                 ELSE ReservedByMappings(buf, not_found.pos))))

-----------------------------------------------------------------------------
(* Metadata encoding and the in-place update (the write side).             *)

\* A fixed-width, zero-padded C string field.
EncodeFixedLenCstr(str, len) == str \o Zeros(len - Len(str))

\* A date packed as the base-10 number YYYYMMDD.
EncodeIso8601(date) == date.year * 10000 + date.month * 100 + date.day

RECURSIVE EncodeRepeatedSymbolCstrLoop(_)
EncodeRepeatedSymbolCstrLoop(symbols) ==
    IF symbols = <<>> THEN <<>>
    ELSE EncodeFixedLenCstr(Head(symbols), SYMBOL_CSTR_LEN)
             \o EncodeRepeatedSymbolCstrLoop(Tail(symbols))

\* A symbol section: the u32 count, then one 22-byte field per symbol.
EncodeRepeatedSymbolCstr(symbols) ==
    LeBytes(Len(symbols), U32_SIZE) \o EncodeRepeatedSymbolCstrLoop(symbols)

RECURSIVE EncodeIntervals(_)
EncodeIntervals(intervals) ==
    IF intervals = <<>> THEN <<>>
    ELSE LET iv == Head(intervals) IN
         LeBytes(EncodeIso8601(iv.start_date), U32_SIZE)
             \o LeBytes(EncodeIso8601(iv.end_date), U32_SIZE)
             \o EncodeFixedLenCstr(iv.symbol, SYMBOL_CSTR_LEN)
             \o EncodeIntervals(Tail(intervals))

RECURSIVE EncodeSymbolMappingsLoop(_)
EncodeSymbolMappingsLoop(mappings) ==
    IF mappings = <<>> THEN <<>>
    ELSE LET m == Head(mappings) IN
         EncodeFixedLenCstr(m.native, SYMBOL_CSTR_LEN)
             \o LeBytes(Len(m.intervals), U32_SIZE)
             \o EncodeIntervals(m.intervals)
             \o EncodeSymbolMappingsLoop(Tail(mappings))

\* The mappings section: the u32 count, then each mapping.
EncodeSymbolMappings(mappings) ==
    LeBytes(Len(mappings), U32_SIZE) \o EncodeSymbolMappingsLoop(mappings)

\* The four 8-byte fields start, end, limit, record_count, in that order.
EncodeRangeAndCounts(start, end, limit, record_count) ==
    LeBytes64(start) \o LeBytes64(end) \o LeBytes64(limit) \o LeBytes64(record_count)

\* The metadata payload: the fixed region, the schema-definition length
\* (0) and the four variable-length sections.
EncodePayload(m) ==
    DBZ \o << m.version >>
        \o EncodeFixedLenCstr(m.dataset, DATASET_CSTR_LEN)
        \o LeBytes(EnumNum(Schemas, m.schema), U16_SIZE)
        \o EncodeRangeAndCounts(m.start, m.end, m.limit, m.record_count)
        \o << EnumNum(Compressions, m.compression) >>
        \o << EnumNum(STypes, m.stype_in) >>
        \o << EnumNum(STypes, m.stype_out) >>
        \o Zeros(RESERVED_LEN)
        \o LeBytes(0, U32_SIZE)
        \o EncodeRepeatedSymbolCstr(m.symbols)
        \o EncodeRepeatedSymbolCstr(m.partial)
        \o EncodeRepeatedSymbolCstr(m.not_found)
        \o EncodeSymbolMappings(m.mappings)

AllSymbols(m) ==
    Range(m.symbols) \cup Range(m.partial) \cup Range(m.not_found)
        \cup {m.mappings[k].native : k \in 1..Len(m.mappings)}
        \cup UNION {{m.mappings[k].intervals[j].symbol :
                        j \in 1..Len(m.mappings[k].intervals)} :
                    k \in 1..Len(m.mappings)}

\* Metadata::encode as it would be if the length back-patched into the
\* prelude counted the prelude too.
MetadataEncodeCountsPrelude(m) ==
    IF Len(m.dataset) > DATASET_CSTR_LEN
           \/ \E sym \in AllSymbols(m) : Len(sym) > SYMBOL_CSTR_LEN
    THEN Err("string is too long to be encoded")
    ELSE LET payload == EncodePayload(m) IN
         Ok(LeBytes(ZSTD_MAGIC_START, U32_SIZE)
                \o LeBytes(PRELUDE_LEN + Len(payload), U32_SIZE) \o payload)

\* Metadata::encode: the prelude (magic, then the payload's byte length
\* back-patched into bytes 4..8) followed by the payload.  A string that
\* does not fit its field is an error and nothing is written.
MetadataEncode(m) ==
    IF Len(m.dataset) > DATASET_CSTR_LEN
           \/ \E sym \in AllSymbols(m) : Len(sym) > SYMBOL_CSTR_LEN
    THEN Err("string is too long to be encoded")
    ELSE LET payload == EncodePayload(m) IN
         Ok(LeBytes(ZSTD_MAGIC_START, U32_SIZE)
                \o LeBytes(Len(payload), U32_SIZE) \o payload)

\* Writing bytes at a 0-based offset of a seekable sink: the bytes there are
\* overwritten, and a write past the end extends the sink (a gap reads 0).
WriteAt(sink, off, bytes) ==
    LET n == IF off + Len(bytes) > Len(sink) THEN off + Len(bytes) ELSE Len(sink)
    IN  [k \in 1..n |->
            IF k > off /\ k <= off + Len(bytes) THEN bytes[k - off]
            ELSE IF k <= Len(sink) THEN sink[k] ELSE 0]

\* The file offset of the field `start`: prelude, version, dataset, schema.
START_SEEK_FROM == PRELUDE_LEN + VERSION_CSTR_LEN + DATASET_CSTR_LEN + U16_SIZE

\* update_encoded as it would be if it wrote at the end of the sink instead
\* of seeking to `start`.
UpdateEncodedNoSeek(sink, start, end, limit, record_count) ==
    WriteAt(sink, Len(sink), EncodeRangeAndCounts(start, end, limit, record_count))

\* Metadata::update_encoded: seek to `start` and overwrite the four fields.
UpdateEncoded(sink, start, end, limit, record_count) ==
    WriteAt(sink, START_SEEK_FROM, EncodeRangeAndCounts(start, end, limit, record_count))

\* Option<u64>::unwrap_or(0); None is <<>> and Some(v) is <<v>>.
UnwrapOr0(opt) == IF opt = <<>> THEN U64Of(0) ELSE opt[1]

\* python.rs update_encoded_metadata.
UpdateEncodedMetadata(sink, start, end, limit, record_count) ==
    UpdateEncoded(sink, start, end, UnwrapOr0(limit), record_count)

\* python.rs encode_metadata, lines 59..74: the Metadata value built from
\* the arguments, or the first enum conversion error.
PyMetadata(dataset, schema, start, end, limit, record_count, compression, stype_in, stype_out, symbols, partial, not_found, mappings) ==
    LET s == EnumTryFrom(Schemas, schema)
        c == EnumTryFrom(Compressions, compression)
        si == EnumTryFrom(STypes, stype_in)
        so == EnumTryFrom(STypes, stype_out)
    IN  IF s.kind # "Ok" THEN Err(s.err)
        ELSE IF c.kind # "Ok" THEN Err(c.err)
        ELSE IF si.kind # "Ok" THEN Err(si.err)
        ELSE IF so.kind # "Ok" THEN Err(so.err)
        ELSE Ok([version |-> SCHEMA_VERSION, dataset |-> dataset, schema |-> s.val,
                 start |-> start, end |-> end, limit |-> UnwrapOr0(limit),
                 record_count |-> record_count, compression |-> c.val,
                 stype_in |-> si.val, stype_out |-> so.val, symbols |-> symbols,
                 partial |-> partial, not_found |-> not_found,
                 mappings |-> mappings])

\* python.rs encode_metadata: the metadata encoded into a fresh buffer.
EncodeMetadata(metadata) ==
    IF metadata.kind # "Ok" THEN metadata ELSE MetadataEncode(metadata.val)

-----------------------------------------------------------------------------
(* Record variants.  TbboMsg is Mbp1Msg under another name (python.rs      *)
(* builds it with Mbp1Msg's from_py_dict).                                 *)
Variants == {"TickMsg", "TradeMsg", "Mbp1Msg", "Mbp10Msg", "OhlcvMsg"}
TbboMsg == "Mbp1Msg"

\* RecordHeader: length u8, rtype u8, publisher_id u16, product_id u32,
\* ts_event u64.
HEADER_SIZE == 1 + 1 + 2 + 4 + 8
\* BidAskPair: bid_px, ask_px i64; bid_sz, ask_sz, bid_ct, ask_ct u32.
BID_ASK_PAIR_SIZE == 8 + 8 + 4 + 4 + 4 + 4
\* price i64, size u32, action, side, flags, depth (1 byte each), ts_recv
\* u64, ts_in_delta i32, sequence u32.
TRADE_FIELDS_SIZE == 8 + 4 + 1 + 1 + 1 + 1 + 8 + 4 + 4

\* mem::size_of::<T>(), from the field lists of the from_py_dict impls.
SizeOf(T) ==
    CASE T = "TickMsg" -> HEADER_SIZE + 8 + 8 + 4 + 1 + 1 + 1 + 1 + 8 + 4 + 4
      [] T = "TradeMsg" -> HEADER_SIZE + TRADE_FIELDS_SIZE
      [] T = "Mbp1Msg" -> HEADER_SIZE + TRADE_FIELDS_SIZE + BID_ASK_PAIR_SIZE
      [] T = "Mbp10Msg" -> HEADER_SIZE + TRADE_FIELDS_SIZE + 10 * BID_ASK_PAIR_SIZE
      [] T = "OhlcvMsg" -> HEADER_SIZE + 8 + 8 + 8 + 8 + 8

\* T::TYPE_ID (ConstTypeId).
TypeId(T) ==
    CASE T = "TickMsg" -> 160
      [] T = "TradeMsg" -> 0
      [] T = "Mbp1Msg" -> 1
      [] T = "Mbp10Msg" -> 10
      [] T = "OhlcvMsg" -> 17

\* header_from_dict as it would be with the length field holding the size
\* in bytes instead of 32-bit words.
HeaderFromDictInBytes(T, dict) ==
    [length |-> SizeOf(T) % 256,
     rtype |-> TypeId(T),
     publisher_id |-> dict.publisher_id,
     product_id |-> dict.product_id,
     ts_event |-> dict.ts_event]

\* header_from_dict::<T>: length and rtype come from T, the rest from the
\* dict.
HeaderFromDict(T, dict) ==
    [length |-> (SizeOf(T) \div 4) % 256,
     rtype |-> TypeId(T),
     publisher_id |-> dict.publisher_id,
     product_id |-> dict.product_id,
     ts_event |-> dict.ts_event]

\* T::from_py_dict: a missing key is an error; the fields after the header
\* are held as the bytes they occupy in the record.
FromPyDict(T, dict) ==
    IF ~dict.complete THEN Err("Missing key")
    ELSE Ok([hd |-> HeaderFromDict(T, dict),
             body |-> [k \in 1..(SizeOf(T) - HEADER_SIZE) |-> (dict.fill + k) % 256]])

\* The S raw bytes of a record as the writer emits them.
RecordBytes(rec) ==
    << rec.hd.length, rec.hd.rtype >>
        \o LeBytes(rec.hd.publisher_id, U16_SIZE)
        \o LeBytes(rec.hd.product_id, U32_SIZE)
        \o LeBytes64(rec.hd.ts_event)
        \o rec.body

\* The record a buffer of S bytes is read as (the bytes reinterpreted as T).
RecordFromBytes(buffer) ==
    [hd |-> [length |-> buffer[1],
             rtype |-> buffer[2],
             publisher_id |-> LeValue(Slice(buffer, 2, U16_SIZE)),
             product_id |-> LeValue(Slice(buffer, 4, U32_SIZE)),
             ts_event |-> Reverse(Slice(buffer, 8, U64_SIZE))],
     body |-> SubSeq(buffer, HEADER_SIZE + 1, Len(buffer))]

\* Tick::new on the buffer's header: the variant the rtype names, or an
\* error when the rtype is no variant's type-ID or the length field is not
\* that variant's size in 32-bit words.
TickNew(buffer) ==
    LET length == buffer[1]
        rtype == buffer[2]
    IN  IF \E V \in Variants : TypeId(V) = rtype /\ length * 4 = SizeOf(V)
        THEN Ok(CHOOSE V \in Variants : TypeId(V) = rtype)
        ELSE Err("Unexpected tick value")

\* T::try_from(tick): the tick is of variant T.
TryFromTick(T, tick) == IF tick = T THEN Ok(tick) ELSE Err("wrong variant")

-----------------------------------------------------------------------------
(* The compressed body.  A zstd frame is modelled as the zstd magic, the   *)
(* content size and the content; a body is frames one after another.       *)
ZSTD_FRAME_MAGIC == << 40, 181, 47, 253 >>
ZSTD_FRAME_HEADER_LEN == Len(ZSTD_FRAME_MAGIC) + U32_SIZE

ZstdEncode(content) ==
    ZSTD_FRAME_MAGIC \o LeBytes(Len(content), U32_SIZE) \o content

RECURSIVE ZstdDecode(_)
\* What the decoder delivers from a source: the decompressed bytes, and
\* whether reading past them ends with an I/O error (a frame is cut short
\* or is not zstd) rather than with a clean end of stream.
ZstdDecode(source) ==
    IF source = <<>> THEN [data |-> <<>>, fault |-> FALSE]
    ELSE IF Len(source) < ZSTD_FRAME_HEADER_LEN
              \/ SubSeq(source, 1, 4) # ZSTD_FRAME_MAGIC
    THEN [data |-> <<>>, fault |-> TRUE]
    ELSE LET n == LeValue(Slice(source, 4, U32_SIZE))
             avail == Len(source) - ZSTD_FRAME_HEADER_LEN
         IN  IF avail < n
             THEN [data |-> SubSeq(source, ZSTD_FRAME_HEADER_LEN + 1, Len(source)),
                   fault |-> TRUE]
             ELSE LET rest == ZstdDecode(SubSeq(source, ZSTD_FRAME_HEADER_LEN + n + 1,
                                                Len(source)))
                  IN  [data |-> Slice(source, ZSTD_FRAME_HEADER_LEN, n) \o rest.data,
                       fault |-> rest.fault]

RECURSIVE ConcatRecordBytes(_)
ConcatRecordBytes(records) ==
    IF records = <<>> THEN <<>>
    ELSE RecordBytes(Head(records)) \o ConcatRecordBytes(Tail(records))

\* write_dbz: the records' raw bytes, in the iterator's order, through a
\* zstd encoder onto the end of the sink.
WriteDbz(sink, records) == sink \o ZstdEncode(ConcatRecordBytes(records))

-----------------------------------------------------------------------------
(* python.rs write_dbz_file.                                               *)
SchemaStrs ==
    << "mbo", "mbp-1", "mbp-10", "tbbo", "trades", "ohlcv-1s", "ohlcv-1m",
       "ohlcv-1h", "ohlcv-1d", "definition", "statistics", "status" >>
STypeStrs == << "product_id", "native", "smart" >>

\* str::parse::<E>() over a table of names.
EnumParse(table, strs, text) ==
    IF \E k \in 1..Len(strs) : strs[k] = text
    THEN Ok(table[CHOOSE k \in 1..Len(strs) : strs[k] = text])
    ELSE Err("unknown enum name")

\* The record variant write_dbz_file's match picks for a schema; "None" for
\* the schemas that have no record variant.
VariantOf(schema) ==
    CASE schema = "Mbo" -> "TickMsg"
      [] schema = "Mbp1" -> "Mbp1Msg"
      [] schema = "Mbp10" -> "Mbp10Msg"
      [] schema = "Tbbo" -> TbboMsg
      [] schema = "Trades" -> "TradeMsg"
      [] schema \in {"Ohlcv1S", "Ohlcv1M", "Ohlcv1H", "Ohlcv1D"} -> "OhlcvMsg"
      [] OTHER -> "None"

RECURSIVE CollectFromPyDict(_, _)
\* records.iter().map(T::from_py_dict).collect::<PyResult<Vec<T>>>(): the
\* first error, or all the records.
CollectFromPyDict(T, dicts) ==
    IF dicts = <<>> THEN Ok(<<>>)
    ELSE LET r == FromPyDict(T, Head(dicts)) IN
         IF r.kind # "Ok" THEN r
         ELSE LET rest == CollectFromPyDict(T, Tail(dicts)) IN
              IF rest.kind # "Ok" THEN rest ELSE Ok(<<r.val>> \o rest.val)

WriteOutcome(sink, res, meta, records) ==
    [sink |-> sink, res |-> res, meta |-> meta, records |-> records]

\* write_records_to_dbz::<T>.
WriteRecordsToDbz(T, sink, meta, dicts) ==
    LET recs == CollectFromPyDict(T, dicts) IN
    IF recs.kind # "Ok" THEN WriteOutcome(sink, recs, meta, <<>>)
    ELSE WriteOutcome(WriteDbz(sink, recs.val), Ok(<<>>), meta, recs.val)

\* write_dbz_file: what the sink holds when the call returns, the call's
\* result, and the metadata and records that reached the sink.
WriteDbzFile(sink, schema_str, dataset, dicts, stype_str) ==
    LET schema == EnumParse(Schemas, SchemaStrs, schema_str)
        stype == EnumParse(STypes, STypeStrs, stype_str)
    IN
    IF schema.kind # "Ok" THEN WriteOutcome(sink, schema, <<>>, <<>>)
    ELSE IF stype.kind # "Ok" THEN WriteOutcome(sink, stype, <<>>, <<>>)
    ELSE LET metadata ==
                 [version |-> SCHEMA_VERSION, dataset |-> dataset,
                  schema |-> schema.val, start |-> U64Of(0), end |-> U64Of(0),
                  limit |-> U64Of(0), record_count |-> U64Of(Len(dicts)),
                  compression |-> "None", stype_in |-> stype.val,
                  stype_out |-> stype.val, symbols |-> <<>>, partial |-> <<>>,
                  not_found |-> <<>>, mappings |-> <<>>]
             encoded == MetadataEncode(metadata)
         IN
    IF encoded.kind # "Ok" THEN WriteOutcome(sink, encoded, <<>>, <<>>)
    ELSE LET sink1 == sink \o encoded.val IN
         IF VariantOf(schema.val) = "None"
         THEN WriteOutcome(sink1, Err("Unsupported schema type for writing DBZ files"),
                           << metadata >>, <<>>)
         ELSE WriteRecordsToDbz(VariantOf(schema.val), sink1, << metadata >>, dicts)

-----------------------------------------------------------------------------
(* The record iterator DbzIntoIter (read.rs).                              *)

\* Dbz::try_into_iter::<T>: the iterator over the source after the
\* metadata.  taken counts the decompressed bytes the decoder has handed
\* out; the buffer holds size_of::<T>() bytes.
TryIntoIter(metadata, T) ==
    [metadata |-> metadata, T |-> T, i |-> 0, taken |-> 0]

NoItem == [some |-> FALSE, rec |-> <<>>, cause |-> "none"]
NoneItem(cause) == [some |-> FALSE, rec |-> <<>>, cause |-> cause]
SomeItem(rec) == [some |-> TRUE, rec |-> rec, cause |-> "record"]

\* next as it would be if a read that reaches the end of the stream exactly
\* were taken for a failed read.
IterNextStopsEarly(iter, body) ==
    LET S == SizeOf(iter.T)
        left == Len(body.data) - iter.taken
    IN
    IF left <= S
    THEN [iter |-> [iter EXCEPT !.taken = Len(body.data)],
          item |-> NoneItem(IF body.fault THEN "io error"
                            ELSE IF left = 0 THEN "eof" ELSE "short read")]
    ELSE LET buffer == Slice(body.data, iter.taken, S)
             tick == TickNew(buffer)
         IN
         IF tick.kind # "Ok"
         THEN [iter |-> [iter EXCEPT !.taken = @ + S],
               item |-> NoneItem("malformed")]
         ELSE LET t == TryFromTick(iter.T, tick.val) IN
              [iter |-> [iter EXCEPT !.taken = @ + S, !.i = @ + 1],
               item |-> IF t.kind = "Ok" THEN SomeItem(RecordFromBytes(buffer))
                        ELSE NoneItem("wrong variant")]

\* next as it would be with read in place of read_exact: a tail shorter than
\* a record is handed on in the zeroed buffer.
IterNextPadsTail(iter, body) ==
    LET S == SizeOf(iter.T)
        left == Len(body.data) - iter.taken
    IN
    IF left = 0 \/ (left < S /\ body.fault)
    THEN [iter |-> [iter EXCEPT !.taken = Len(body.data)],
          item |-> NoneItem(IF body.fault THEN "io error" ELSE "eof")]
    ELSE LET n == IF left < S THEN left ELSE S
             buffer == Slice(body.data, iter.taken, n) \o Zeros(S - n)
             tick == TickNew(buffer)
         IN
         IF tick.kind # "Ok"
         THEN [iter |-> [iter EXCEPT !.taken = @ + n],
               item |-> NoneItem("malformed")]
         ELSE LET t == TryFromTick(iter.T, tick.val) IN
              [iter |-> [iter EXCEPT !.taken = @ + n, !.i = @ + 1],
               item |-> IF t.kind = "Ok" THEN SomeItem(RecordFromBytes(buffer))
                        ELSE NoneItem("wrong variant")]

\* next as it would be if the record constructor's error were ignored and
\* the buffer handed out as a record.
IterNextYieldsMalformed(iter, body) ==
    LET S == SizeOf(iter.T)
        left == Len(body.data) - iter.taken
    IN
    IF left < S
    THEN [iter |-> [iter EXCEPT !.taken = Len(body.data)],
          item |-> NoneItem(IF body.fault THEN "io error"
                            ELSE IF left = 0 THEN "eof" ELSE "short read")]
    ELSE LET buffer == Slice(body.data, iter.taken, S) IN
         [iter |-> [iter EXCEPT !.taken = @ + S, !.i = @ + 1],
          item |-> SomeItem(RecordFromBytes(buffer))]

\* next as it would be with the index advanced as soon as a record has been
\* read, before the record constructor has looked at it.
IterNextCountsReads(iter, body) ==
    LET S == SizeOf(iter.T)
        left == Len(body.data) - iter.taken
    IN
    IF left < S
    THEN [iter |-> [iter EXCEPT !.taken = Len(body.data)],
          item |-> NoneItem(IF body.fault THEN "io error"
                            ELSE IF left = 0 THEN "eof" ELSE "short read")]
    ELSE LET buffer == Slice(body.data, iter.taken, S)
             tick == TickNew(buffer)
         IN
         IF tick.kind # "Ok"
         THEN [iter |-> [iter EXCEPT !.taken = @ + S, !.i = @ + 1],
               item |-> NoneItem("malformed")]
         ELSE LET t == TryFromTick(iter.T, tick.val) IN
              [iter |-> [iter EXCEPT !.taken = @ + S, !.i = @ + 1],
               item |-> IF t.kind = "Ok" THEN SomeItem(RecordFromBytes(buffer))
                        ELSE NoneItem("wrong variant")]

\* DbzIntoIter::next over the decoder's output `body` (ZstdDecode of the
\* source after the metadata): the iterator afterwards and the item
\* returned.  cause tells which return of the code produced a None.
IterNext(iter, body) ==
    LET S == SizeOf(iter.T)
        left == Len(body.data) - iter.taken
    IN
    IF left < S
    THEN \* read_exact fails (end of stream or an I/O error); what was left
         \* of the stream has been consumed
         [iter |-> [iter EXCEPT !.taken = Len(body.data)],
          item |-> NoneItem(IF body.fault THEN "io error"
                            ELSE IF left = 0 THEN "eof" ELSE "short read")]
    ELSE LET buffer == Slice(body.data, iter.taken, S)
             tick == TickNew(buffer)
         IN
         IF tick.kind # "Ok"
         THEN [iter |-> [iter EXCEPT !.taken = @ + S],
               item |-> NoneItem("malformed")]
         ELSE LET t == TryFromTick(iter.T, tick.val) IN
              [iter |-> [iter EXCEPT !.taken = @ + S, !.i = @ + 1],
               item |-> IF t.kind = "Ok" THEN SomeItem(RecordFromBytes(buffer))
                        ELSE NoneItem("wrong variant")]

RECURSIVE SubDigits(_, _, _, _, _)
\* a - b on base-256 digits, least significant digit (index k) first: the
\* digits of (a - b) mod 2^64 and the final borrow.
SubDigits(a, b, k, borrow, acc) ==
    IF k = 0 THEN [digits |-> acc, borrow |-> borrow]
    ELSE LET d == a[k] - b[k] - borrow IN
         SubDigits(a, b, k - 1, IF d < 0 THEN 1 ELSE 0, << (d + 256) % 256 >> \o acc)

\* DbzIntoIter::size_hint: record_count as usize - i.  The subtraction
\* panics on underflow when the build checks arithmetic overflow and wraps
\* when it does not.
SizeHint(iter, overflow_checks) ==
    LET r == SubDigits(iter.metadata.record_count, U64Of(iter.i), U64_SIZE, 0, <<>>) IN
    IF r.borrow = 1 /\ overflow_checks
    THEN Panic("attempt to subtract with overflow")
    ELSE Ok([lower |-> r.digits, upper |-> r.digits])

-----------------------------------------------------------------------------
(* Inputs.                                                                 *)
SeqsUpTo(S, n) == UNION {[1..k -> S] : k \in 0..n}

GLBX_MDP3 == << 71, 76, 66, 88, 46, 77, 68, 80, 51 >>
\* A dataset that fills its field up to the last byte but one.
LongDataset == [k \in 1..(DATASET_CSTR_LEN - 1) |-> 65]
DatasetInputs == { <<>>, GLBX_MDP3, LongDataset }

SPX == << 83, 80, 88, 46, 49, 46, 50 >>
ESZ == << 69, 83, 90 >>
\* A symbol of 21 bytes whose last character takes two bytes in UTF-8.
LongSymbol == [k \in 1..(SYMBOL_CSTR_LEN - 3) |-> 66] \o << 195, 169 >>
SymbolInputs == { SPX, ESZ, LongSymbol }

Date(y, m, d) == [year |-> y, month |-> m, day |-> d]
IntervalInputs ==
    { [start_date |-> Date(2015, 10, 31), end_date |-> Date(2016, 2, 29), symbol |-> SPX],
      [start_date |-> Date(1, 1, 1), end_date |-> Date(9999, 12, 31), symbol |-> LongSymbol] }
MappingInputs ==
    { [native |-> ESZ, intervals |-> ivs] : ivs \in SeqsUpTo(IntervalInputs, MaxIntervals) }

U64Inputs == { U64Of(0), U64Of(66051), U64Max }

BaseMetadata ==
    [version |-> SCHEMA_VERSION, dataset |-> GLBX_MDP3, schema |-> "Mbo",
     start |-> << 1, 2, 3, 4, 5, 6, 7, 8 >>,
     end |-> << 11, 12, 13, 14, 15, 16, 17, 18 >>,
     limit |-> << 21, 22, 23, 24, 25, 26, 27, 28 >>,
     record_count |-> U64Of(2),
     compression |-> "None", stype_in |-> "ProductId", stype_out |-> "Native",
     symbols |-> <<>>, partial |-> <<>>, not_found |-> <<>>, mappings |-> <<>>]

\* Metadata values for the codec: each family varies some fields of the base.
MetaInputs ==
    { [BaseMetadata EXCEPT !.version = v, !.dataset = d] :
          v \in 0..SCHEMA_VERSION, d \in DatasetInputs }
    \cup { [BaseMetadata EXCEPT !.schema = sc] : sc \in Range(Schemas) }
    \cup { [BaseMetadata EXCEPT !.compression = c, !.stype_in = si, !.stype_out = so] :
          c \in Range(Compressions), si \in Range(STypes), so \in Range(STypes) }
    \cup { [BaseMetadata EXCEPT !.start = a, !.end = b, !.limit = c, !.record_count = d] :
          a \in {U64Of(0), U64Max}, b \in {U64Of(66051)}, c \in {U64Of(0), U64Max},
          d \in U64Inputs }
    \cup { [BaseMetadata EXCEPT !.symbols = sy, !.partial = pa, !.not_found = nf] :
          sy \in SeqsUpTo(SymbolInputs, MaxSymbols),
          pa \in SeqsUpTo({ESZ}, 1), nf \in SeqsUpTo({SPX}, 1) }
    \cup { [BaseMetadata EXCEPT !.symbols = sy, !.mappings = ma] :
          sy \in SeqsUpTo({ESZ}, 1), ma \in SeqsUpTo(MappingInputs, MaxMappings) }

-----------------------------------------------------------------------------
(* The state.                                                              *)
VARIABLES
    pc,        \* the writer: "start", "metadata" (metadata encoded, no body
               \* yet), "artifact" (metadata and body) or "failed"
    file,      \* the bytes of the sink
    wmeta,     \* << the Metadata that was encoded >>, or <<>>
    wrecs,     \* the records written to the body, in order
    wres,      \* << the result of the last writer call >>, or <<>>
    prevFile,  \* << the sink before the last update >>, or <<>>
    updArgs,   \* the arguments of the last updates, most recent last (two
               \* at most are kept)
    rpc,       \* the reader: "idle", "ready" (it holds a source), "opened",
               \* "iterating" or "failed"
    source,    \* the bytes the reader reads
    rd,        \* << the result of Metadata::read >>, or <<>>
    iter,      \* << the DbzIntoIter >>, or <<>>
    out,       \* the records next() has yielded, in order
    last,      \* the item the last next() returned
    hint       \* << the result of the last size_hint() >>, or <<>>

vars == << pc, file, wmeta, wrecs, wres, prevFile, updArgs, rpc, source, rd,
           iter, out, last, hint >>
writerVars == << pc, file, wmeta, wrecs, wres, prevFile, updArgs >>
readerVars == << rpc, source, rd, iter, out, last, hint >>

Init ==
    /\ pc = "start"
    /\ file = <<>>
    /\ wmeta = <<>>
    /\ wrecs = <<>>
    /\ wres = <<>>
    /\ prevFile = <<>>
    /\ updArgs = <<>>
    /\ rpc = "idle"
    /\ source = <<>>
    /\ rd = <<>>
    /\ iter = <<>>
    /\ out = <<>>
    /\ last = NoItem
    /\ hint = <<>>

-----------------------------------------------------------------------------
(* The writer's steps.                                                     *)

\* A caller encodes a Metadata value onto an empty sink (Metadata::encode).
MetadataEncodeStep(inputs) ==
    /\ pc = "start" /\ rpc = "idle"
    /\ \E m \in inputs :
         LET r == MetadataEncode(m) IN
         /\ wres' = << [kind |-> r.kind, err |-> r.err] >>
         /\ IF r.kind = "Ok"
            THEN file' = r.val /\ wmeta' = << m >> /\ pc' = "metadata"
            ELSE file' = file /\ wmeta' = wmeta /\ pc' = "failed"
    /\ UNCHANGED << wrecs, prevFile, updArgs, readerVars >>

PyU64Inputs == { U64Of(0), U64Of(66051) }

\* python.rs encode_metadata called with numeric enums, some of them not in
\* the tables.
EncodeMetadataStep ==
    /\ pc = "start" /\ rpc = "idle"
    /\ \E schema \in {0, 8, Len(Schemas)}, limit \in {<<>>, << U64Max >>},
          compression \in {0, 1, Len(Compressions)}, stype_in \in {0, Len(STypes)},
          stype_out \in {2, Len(STypes)}, record_count \in PyU64Inputs,
          symbols \in SeqsUpTo({SPX}, 1) :
         LET m == PyMetadata(GLBX_MDP3, schema, U64Of(66051), U64Max, limit,
                             record_count, compression, stype_in, stype_out,
                             symbols, <<>>, << ESZ >>, <<>>)
             r == EncodeMetadata(m)
         IN
         /\ wres' = << [kind |-> r.kind, err |-> r.err] >>
         /\ IF r.kind = "Ok"
            THEN file' = r.val /\ wmeta' = << m.val >> /\ pc' = "metadata"
            ELSE file' = file /\ wmeta' = wmeta /\ pc' = "failed"
    /\ UNCHANGED << wrecs, prevFile, updArgs, readerVars >>

DictInputs ==
    { [complete |-> TRUE, fill |-> 1, publisher_id |-> 1, product_id |-> 5482,
       ts_event |-> U64Of(66051)],
      [complete |-> TRUE, fill |-> 2, publisher_id |-> 258, product_id |-> 66051,
       ts_event |-> U64Max],
      [complete |-> FALSE, fill |-> 0, publisher_id |-> 0, product_id |-> 0,
       ts_event |-> U64Of(0)] }

\* python.rs write_dbz_file on an empty file object.
WriteDbzFileStep ==
    /\ pc = "start" /\ rpc = "idle"
    /\ \E schema_str \in Range(SchemaStrs) \cup {"bogus"},
          stype_str \in {"product_id", "bogus"},
          dicts \in SeqsUpTo(DictInputs, MaxRecords) :
         LET w == WriteDbzFile(file, schema_str, GLBX_MDP3, dicts, stype_str) IN
         /\ file' = w.sink
         /\ wres' = << [kind |-> w.res.kind, err |-> w.res.err] >>
         /\ wmeta' = w.meta
         /\ wrecs' = w.records
         /\ pc' = IF w.res.kind = "Ok" THEN "artifact" ELSE "failed"
    /\ UNCHANGED << prevFile, updArgs, readerVars >>

\* The records a caller of write_dbz::<T> may hand over: records built as the
\* shim builds them, one whose rtype is no variant's type-ID, and one whose
\* header names another variant.
OtherVariant(T) == IF T = "TickMsg" THEN "OhlcvMsg" ELSE "TickMsg"
GoodRecords(T) == { FromPyDict(T, d).val : d \in {x \in DictInputs : x.complete} }
RecordInputs(T) ==
    GoodRecords(T)
    \cup { [r EXCEPT !.hd.rtype = 255] : r \in {x \in GoodRecords(T) : x.body[1] = 2} }
    \cup { [r EXCEPT !.hd.rtype = TypeId(OtherVariant(T)),
                     !.hd.length = SizeOf(OtherVariant(T)) \div 4] :
             r \in {x \in GoodRecords(T) : x.body[1] = 3} }

BodyVariants == {"TickMsg", "OhlcvMsg", "TradeMsg"}

\* A caller writes the body after the metadata (write_dbz::<T>).
WriteDbzStep ==
    /\ pc = "metadata" /\ rpc = "idle"
    /\ \E T \in BodyVariants :
         \E recs \in SeqsUpTo(RecordInputs(T), MaxRecords) :
            /\ file' = WriteDbz(file, recs)
            /\ wrecs' = recs
    /\ pc' = "artifact"
    /\ wres' = << [kind |-> "Ok", err |-> ""] >>
    /\ UNCHANGED << wmeta, prevFile, updArgs, readerVars >>

UpdateInputs ==
    { << a, U64Of(5), c, U64Of(1) >> : a \in {U64Of(9), U64Max}, c \in {<<>>, << U64Max >>} }

KeepLast2(s) == IF Len(s) > 2 THEN SubSeq(s, Len(s) - 1, Len(s)) ELSE s

\* python.rs update_encoded_metadata on the file that was written.
UpdateEncodedMetadataStep ==
    /\ pc \in {"metadata", "artifact"} /\ rpc = "idle"
    /\ \E args \in UpdateInputs :
         /\ file' = UpdateEncodedMetadata(file, args[1], args[2], args[3], args[4])
         /\ updArgs' = KeepLast2(Append(updArgs, args))
    /\ prevFile' = << file >>
    /\ UNCHANGED << pc, wmeta, wrecs, wres, readerVars >>

-----------------------------------------------------------------------------
(* How the file reaches a reader.                                          *)

\* The reader opens the file as it is.
DeliverIntact ==
    /\ pc # "start" /\ rpc = "idle"
    /\ source' = file
    /\ rpc' = "ready"
    /\ UNCHANGED << writerVars, rd, iter, out, last, hint >>

\* The byte length of prelude and metadata payload of an encoded artifact.
MetadataEnd(artifact) == PRELUDE_LEN + LeValue(Slice(artifact, 4, U32_SIZE))

\* Where a transfer may stop: around the prelude, around the fixed region,
\* around the end of the metadata, and in the body.
CutPoints(artifact) ==
    LET e == MetadataEnd(artifact) IN
    { n \in (0..(PRELUDE_LEN + 1))
            \cup ((PRELUDE_LEN + FIXED_METADATA_LEN - 1)..(PRELUDE_LEN + FIXED_METADATA_LEN + 5))
            \cup ((e - 2)..(e + 1))
            \cup {e + ZSTD_FRAME_HEADER_LEN, e + ZSTD_FRAME_HEADER_LEN + HEADER_SIZE,
                  Len(artifact) - 1} :
        n >= 0 /\ n < Len(artifact) }

\* The reader gets a proper prefix of the file (a transfer that stopped).
Truncate ==
    /\ pc \in {"metadata", "artifact"} /\ rpc = "idle"
    /\ \E n \in CutPoints(file) : source' = SubSeq(file, 1, n)
    /\ rpc' = "ready"
    /\ UNCHANGED << writerVars, rd, iter, out, last, hint >>

\* The reader gets an artifact of another producer whose prelude declares a
\* shorter frame: frame_size n and the first n bytes of the payload.
Reframe ==
    /\ pc = "metadata" /\ rpc = "idle"
    /\ \E n \in FIXED_METADATA_LEN..(MetadataEnd(file) - PRELUDE_LEN - 1) :
         source' = LeBytes(ZSTD_MAGIC_START, U32_SIZE) \o LeBytes(n, U32_SIZE)
                       \o Slice(file, PRELUDE_LEN, n)
    /\ rpc' = "ready"
    /\ UNCHANGED << writerVars, rd, iter, out, last, hint >>

-----------------------------------------------------------------------------
(* The reader's steps.                                                     *)

\* Dbz::new: Metadata::read on the source.
DbzNew ==
    /\ rpc = "ready"
    /\ LET r == MetadataRead(source) IN
       /\ rd' = << r >>
       /\ rpc' = IF r.kind = "Ok" THEN "opened" ELSE "failed"
    /\ UNCHANGED << writerVars, source, iter, out, last, hint >>

\* What the zstd decoder delivers from the source after the metadata.
Body == ZstdDecode(SubSeq(source, rd[1].consumed + 1, Len(source)))

\* Dbz::try_into_iter::<T>.
TryIntoIterStep ==
    /\ rpc = "opened"
    /\ \E T \in Variants : iter' = << TryIntoIter(rd[1].val, T) >>
    /\ rpc' = "iterating"
    /\ UNCHANGED << writerVars, source, rd, out, last, hint >>

\* One call of DbzIntoIter::next.
NextStep ==
    /\ rpc = "iterating"
    /\ LET r == IterNext(iter[1], Body) IN
       /\ iter' = << r.iter >>
       /\ last' = r.item
       /\ out' = IF r.item.some THEN Append(out, r.item.rec) ELSE out
    /\ hint' = <<>>
    /\ UNCHANGED << writerVars, rpc, source, rd >>

\* One call of DbzIntoIter::size_hint, in a build with or without overflow
\* checks.
SizeHintStep ==
    /\ rpc = "iterating"
    /\ \E overflow_checks \in BOOLEAN : hint' = << SizeHint(iter[1], overflow_checks) >>
    /\ UNCHANGED << writerVars, rpc, source, rd, iter, out, last >>

-----------------------------------------------------------------------------
(* Specifications.                                                         *)

\* Metadata values for the record stream: the schema and the record count
\* vary.
IterMetaInputs ==
    { [BaseMetadata EXCEPT !.schema = sc, !.record_count = U64Of(n)] :
          sc \in {"Mbo", "Ohlcv1H"}, n \in 0..MaxRecords }

\* Writing and iterating records.
Next ==
    \/ WriteDbzFileStep
    \/ MetadataEncodeStep(IterMetaInputs)
    \/ WriteDbzStep
    \/ DeliverIntact
    \/ Truncate
    \/ DbzNew
    \/ TryIntoIterStep
    \/ NextStep
    \/ SizeHintStep

Spec == Init /\ [][Next]_vars

\* The metadata codec: encoding, delivery and parsing.
NextMeta ==
    \/ MetadataEncodeStep(MetaInputs)
    \/ EncodeMetadataStep
    \/ DeliverIntact
    \/ Truncate
    \/ Reframe
    \/ DbzNew

SpecMeta == Init /\ [][NextMeta]_vars

\* The in-place update of encoded metadata.
NextUpdate ==
    \/ MetadataEncodeStep(MetaInputs)
    \/ WriteDbzFileStep
    \/ UpdateEncodedMetadataStep
    \/ DeliverIntact
    \/ DbzNew

SpecUpdate == Init /\ [][NextUpdate]_vars

-----------------------------------------------------------------------------
(* Properties of the metadata codec (SpecMeta).                            *)

\* The valid Metadata values: a known version, strings that fit their
\* fields with a NUL to spare and do not end in NUL, valid dates.
ValidString(str, len) ==
    Len(str) < len /\ Utf8Valid(str) /\ (str = <<>> \/ str[Len(str)] # 0)
ValidDate(date) ==
    /\ date.year >= 1 /\ date.year <= MAX_YEAR
    /\ date.month >= 1 /\ date.month <= 12
    /\ date.day >= 1 /\ date.day <= DaysInMonth(date.year, date.month)
ValidMetadata(m) ==
    /\ m.version <= SCHEMA_VERSION
    /\ ValidString(m.dataset, DATASET_CSTR_LEN)
    /\ \A sym \in AllSymbols(m) : ValidString(sym, SYMBOL_CSTR_LEN)
    /\ \A k \in 1..Len(m.mappings) : \A j \in 1..Len(m.mappings[k].intervals) :
          /\ ValidDate(m.mappings[k].intervals[j].start_date)
          /\ ValidDate(m.mappings[k].intervals[j].end_date)

\* The reader has read the file exactly as the encoder left it.
ReadBack == rd # <<>> /\ pc = "metadata" /\ wmeta # <<>> /\ source = file

PreludePassed ==
    /\ Len(source) >= PRELUDE_LEN
    /\ LeValue(Slice(source, 0, 4)) >= ZSTD_MAGIC_START
    /\ LeValue(Slice(source, 0, 4)) < ZSTD_MAGIC_END
    /\ LeValue(Slice(source, 4, 4)) >= FIXED_METADATA_LEN

\* C5: for every payload whose prelude passed the checks, parsing ends with
\* a Metadata value or with a returned error; a read past the end of the
\* payload is never an out-of-bounds access or abort.
C5_NoAbortOnShortPayload ==
    (rd # <<>> /\ PreludePassed) => rd[1].kind \in {"Ok", "Err"}

\* source is a proper prefix of the file that ends before the end of the
\* metadata.
TruncatedInMetadata ==
    /\ pc \in {"metadata", "artifact"}
    /\ Len(source) < MetadataEnd(file)
    /\ source = SubSeq(file, 1, Len(source))

TruncatedErrors == {"Failed to read metadata prelude", "Failed to read metadata"}

\* C9: Truncation safety.  Metadata::read on a proper prefix of a valid
\* artifact that ends before the end of the metadata (the empty prefix and
\* the prefixes that cut the prelude included) fails with the error of a
\* short read and returns no Metadata.
C9_TruncationSafety ==
    (rd # <<>> /\ TruncatedInMetadata)
        => (rd[1].kind = "Err" /\ rd[1].err \in TruncatedErrors /\ rd[1].val = <<>>)

\* Metadata::read has failed on a prefix that holds the whole fixed region
\* and is cut inside the variable-length sections.
C9_Witness ==
    /\ rd # <<>> /\ TruncatedInMetadata
    /\ Len(source) > PRELUDE_LEN + FIXED_METADATA_LEN + U32_SIZE
    /\ rd[1].kind = "Err"
    /\ rpc = "failed"

-----------------------------------------------------------------------------
(* Properties of the in-place update (SpecUpdate).                         *)

\* The file offsets of the four 8-byte fields, as 1-based positions.
UpdatedPositions == (START_SEEK_FROM + 1)..(START_SEEK_FROM + 4 * U64_SIZE)

\* C7: Update idempotence.  Applying update_encoded with the same
\* (start, end, limit, record_count) a second time leaves the file as the
\* first application left it, and an update changes no byte outside file
\* offsets 30..62 and not the file's length, so the compressed body is
\* unchanged.
C7_UpdateIdempotentAndFramed ==
    prevFile # <<>> =>
        /\ Len(file) = Len(prevFile[1])
        /\ \A k \in 1..Len(file) : k \notin UpdatedPositions => file[k] = prevFile[1][k]
        /\ (Len(updArgs) = 2 /\ updArgs[1] = updArgs[2]) => file = prevFile[1]

\* The same update has been applied twice to an artifact with a body, and
\* the first application changed the file.
C7_Witness ==
    /\ prevFile # <<>>
    /\ Len(updArgs) = 2 /\ updArgs[1] = updArgs[2]
    /\ pc = "artifact" /\ wrecs # <<>>
    /\ wmeta # <<>> /\ wmeta[1].start # updArgs[2][1]
    /\ file = prevFile[1]

\* C8: the decoder reads start, end, limit and record_count as
\* little-endian u64 at file offsets 30, 38, 46 and 54, so after
\* update_encoded(start=a, end=b, limit=c, record_count=d) on a valid
\* artifact Metadata::read returns a, b, c, d for those fields and every
\* other field as Metadata::read returned it before the update.
C8_UpdateReadBack ==
    (rd # <<>> /\ source = file /\ updArgs # <<>>) =>
        LET args == updArgs[Len(updArgs)]
            before == MetadataRead(prevFile[1])
        IN  /\ rd[1].kind = "Ok"
            /\ before.kind = "Ok"
            /\ rd[1].val = [before.val EXCEPT !.start = args[1], !.end = args[2],
                                              !.limit = UnwrapOr0(args[3]),
                                              !.record_count = args[4]]
            /\ FieldPos.start = 22 /\ FieldPos.end = 30 /\ FieldPos.limit = 38
            /\ FieldPos.record_count = 46 /\ FieldPos.sdl = 96
            /\ rd[1].val.start = Reverse(SubSeq(file, 31, 38))
            /\ rd[1].val.end = Reverse(SubSeq(file, 39, 46))
            /\ rd[1].val.limit = Reverse(SubSeq(file, 47, 54))
            /\ rd[1].val.record_count = Reverse(SubSeq(file, 55, 62))

\* An updated artifact with a body has been read back, the update having
\* changed start and left limit unset.
C8_Witness ==
    /\ rd # <<>> /\ source = file /\ updArgs # <<>>
    /\ rd[1].kind = "Ok"
    /\ rd[1].val.start = U64Max /\ rd[1].val.limit = U64Of(0)
    /\ wmeta[1].start # U64Max
    /\ wrecs # <<>>

-----------------------------------------------------------------------------
(* Properties of writing and iterating records (Spec).                     *)

\* rec is a record of variant T: its header names T and T's size, and it
\* holds T's bytes.
ConformsTo(rec, T) ==
    /\ rec.hd.rtype = TypeId(T)
    /\ rec.hd.length * 4 = SizeOf(T)
    /\ Len(rec.body) = SizeOf(T) - HEADER_SIZE

\* The artifact was written with Metadata{schema, record_count = n} and n
\* records of the schema's variant, reaches the reader whole, and is
\* iterated as that variant.
RoundTripCase ==
    /\ pc = "artifact" /\ wmeta # <<>>
    /\ VariantOf(wmeta[1].schema) # "None"
    /\ wmeta[1].record_count = U64Of(Len(wrecs))
    /\ \A k \in 1..Len(wrecs) : ConformsTo(wrecs[k], VariantOf(wmeta[1].schema))
    /\ source = file
    /\ rpc = "iterating"
    /\ iter[1].T = VariantOf(wmeta[1].schema)

\* A call of next() has returned None.
EndReported == ~last.some /\ last.cause # "none"

\* C1: Record round-trip.  Iterating the artifact written from
\* (Metadata{schema, record_count = n}, R) yields the records of R in R's
\* order, none missing, duplicated or reordered: what has been yielded is
\* always the start of R, next() reports the end only when all of R has
\* been yielded, and then the number yielded equals
\* metadata.record_count.
C1_RecordRoundTrip ==
    RoundTripCase =>
        /\ Len(out) <= Len(wrecs)
        /\ out = SubSeq(wrecs, 1, Len(out))
        /\ EndReported =>
              /\ out = wrecs
              /\ iter[1].metadata.record_count = U64Of(Len(out))

\* A round trip of two or more records has run to the end.
C1_Witness ==
    /\ RoundTripCase
    /\ EndReported
    /\ Len(out) >= 2
    /\ out = wrecs
    /\ out[1] # out[2]

\* The buffer the next call of next() would fill, when S bytes remain.
FullRecordAhead ==
    rpc = "iterating"
        /\ Len(Body.data) - iter[1].taken >= SizeOf(iter[1].T)
NextBuffer == Slice(Body.data, iter[1].taken, SizeOf(iter[1].T))

\* A record of the requested variant stands next in the stream.
MatchAhead ==
    /\ FullRecordAhead
    /\ TickNew(NextBuffer).kind = "Ok"
    /\ TickNew(NextBuffer).val = iter[1].T

\* C3: a full record whose rtype does not match the requested variant is
\* skipped and iteration continues: the call of next() that met it goes on
\* and yields the next record that does match, so it does not return None
\* while a matching record follows.
C3_MismatchSkipped ==
    (rpc = "iterating" /\ EndReported /\ last.cause = "wrong variant") => ~MatchAhead

RECURSIVE DigitsValue(_)
\* The number a digit sequence (most significant first) stands for; for
\* small values only.
DigitsValue(digits) ==
    IF digits = <<>> THEN 0
    ELSE digits[Len(digits)] + 256 * DigitsValue(SubSeq(digits, 1, Len(digits) - 1))

SmallU64(digits) == SubSeq(digits, 1, 5) = Zeros(5)

\* C4: after any sequence of next() calls, size_hint() returns
\* (remaining, Some(remaining)) with remaining = record_count - i, without
\* crashing or underflowing, also when the body holds more records than
\* record_count.
C4_SizeHintNeverUnderflows ==
    (rpc = "iterating" /\ hint # <<>>) =>
        /\ hint[1].kind = "Ok"
        /\ hint[1].val.lower = hint[1].val.upper
        /\ SmallU64(hint[1].val.lower)
        /\ DigitsValue(hint[1].val.lower) + iter[1].i
               = DigitsValue(iter[1].metadata.record_count)

\* C6: write_dbz_file called with a schema that has no record variant
\* returns an error and the sink has received no byte.
C6_NothingWrittenOnUnsupportedSchema ==
    (pc = "failed" /\ wres # <<>>
        /\ wres[1].err = "Unsupported schema type for writing DBZ files")
        => file = <<>>

\* The bytes the next call of next() reads do not form a valid record, or
\* the decoder fails with an I/O error.
MalformedAhead == FullRecordAhead /\ TickNew(NextBuffer).kind = "Err"
IoErrorAhead ==
    /\ rpc = "iterating"
    /\ Len(Body.data) - iter[1].taken < SizeOf(iter[1].T)
    /\ Body.fault

\* C10: a call of next() that reads S bytes the record constructor rejects
\* returns None and yields no record built from those bytes (nothing is
\* added to what was yielded, i is not advanced), and so does a call that
\* meets an I/O error of the decoder.
C10_MalformedEndsIteration ==
    [][ (NextStep /\ (MalformedAhead \/ IoErrorAhead))
            => (~last'.some /\ out' = out /\ iter'[1].i = iter[1].i) ]_vars

\* next() has returned None on a malformed record after it had yielded a
\* record.
C10_Witness ==
    /\ rpc = "iterating"
    /\ EndReported /\ last.cause = "malformed"
    /\ Len(out) >= 1

\* Bytes of the decompressed body not yet read by the iterator.
BytesLeft == Len(Body.data) - iter[1].taken

\* The next call of next() finds the body at its end or finds a tail
\* shorter than a record.
TailAhead == rpc = "iterating" /\ BytesLeft < SizeOf(iter[1].T)

\* C11: a call of next() that finds 0 bytes or a tail of 1..S-1 bytes
\* returns end-of-stream, builds no record and does not advance i; a call
\* that does yield a record has read S fresh bytes and yields those bytes.
C11_TruncatedTailIsEndOfStream ==
    [][ NextStep =>
          /\ TailAhead => (~last'.some /\ out' = out /\ iter'[1].i = iter[1].i)
          /\ last'.some =>
                /\ BytesLeft >= SizeOf(iter[1].T)
                /\ last'.rec = RecordFromBytes(NextBuffer)
                /\ iter'[1].taken = iter[1].taken + SizeOf(iter[1].T) ]_vars

\* next() has met a tail of 1..S-1 bytes after it had taken whole records
\* from the body.
C11_Witness ==
    /\ rpc = "iterating"
    /\ EndReported /\ last.cause = "short read"
    /\ iter[1].i >= 1
    /\ Len(Body.data) % SizeOf(iter[1].T) # 0

-----------------------------------------------------------------------------
(* Parsing artifacts of other producers (SpecParse): the reader gets the   *)
(* file with some bytes of the metadata changed.                           *)

\* The payload offsets of the element counts in an encoded payload: the
\* counts of symbols, partial, not_found and mappings, and the interval
\* count of the first mapping.
CountOffsets(payload) ==
    LET symbols == DecodeRepeatedSymbolCstr(payload, FieldPos.sdl + U32_SIZE)
        partial == DecodeRepeatedSymbolCstr(payload, symbols.pos)
        not_found == DecodeRepeatedSymbolCstr(payload, partial.pos)
        mappings == DecodeSymbolMappings(payload, not_found.pos)
    IN  { FieldPos.sdl + U32_SIZE, symbols.pos, partial.pos, not_found.pos }
        \cup (IF mappings.val # <<>>
              THEN { not_found.pos + U32_SIZE + SYMBOL_CSTR_LEN } ELSE {})

\* Changes of one payload byte, as << payload offset, new value >>: in the
\* version string, the dataset, the enums, the reserved bytes, the
\* schema-definition length and the element counts.
PatchPoints(payload) ==
    { << FieldPos.version, 88 >>, << FieldPos.version + 3, 0 >>,
      << FieldPos.version + 3, 2 >>, << FieldPos.version + 3, 255 >>,
      << FieldPos.dataset, 128 >>,
      << FieldPos.schema, 11 >>, << FieldPos.schema, 12 >>, << FieldPos.schema + 1, 1 >>,
      << FieldPos.compression, 1 >>, << FieldPos.compression, 2 >>,
      << FieldPos.stype_in, 2 >>, << FieldPos.stype_in, 3 >>,
      << FieldPos.stype_out, 0 >>, << FieldPos.stype_out, 3 >>,
      << FieldPos.reserved, 7 >>,
      << FieldPos.sdl, 1 >>, << FieldPos.sdl + 3, 1 >> }
    \cup UNION { { << c, 0 >>, << c, 1 >>, << c, 3 >>, << c + 1, 1 >>, << c + 2, 255 >> } :
                    c \in CountOffsets(payload) }

\* A second change that may come with the first one.
SecondPatchPoints ==
    { << FieldPos.reserved, 0 >>, << FieldPos.version, 88 >>, << FieldPos.sdl, 1 >> }

ApplyPatch(artifact, patch) == [artifact EXCEPT ![PRELUDE_LEN + patch[1] + 1] = patch[2]]

\* The reader gets the encoded metadata with one or two payload bytes
\* changed.
Patch ==
    /\ pc = "metadata" /\ rpc = "idle"
    /\ \E p1 \in PatchPoints(SubSeq(file, PRELUDE_LEN + 1, Len(file))),
          p2 \in SecondPatchPoints :
         source' = ApplyPatch(ApplyPatch(file, p1), p2)
    /\ rpc' = "ready"
    /\ UNCHANGED << writerVars, rd, iter, out, last, hint >>

\* Magic numbers around the accepted range, and frame sizes around the
\* fixed metadata size and the payload's length n.
MagicInputs ==
    { 0, ZSTD_MAGIC_START - 1, ZSTD_MAGIC_START, ZSTD_MAGIC_START + 1,
      ZSTD_MAGIC_END - 1, ZSTD_MAGIC_END, ZSTD_MAGIC_END + 1 }
FrameSizeInputs(n) == { 0, 1, FIXED_METADATA_LEN - 1, FIXED_METADATA_LEN, n - 1, n, n + 1 }

\* The reader gets the payload behind another prelude, with or without a
\* byte of padding behind the payload.
ForgePrelude ==
    /\ pc = "metadata" /\ rpc = "idle"
    /\ \E magic \in MagicInputs, frame_size \in FrameSizeInputs(Len(file) - PRELUDE_LEN),
          pad \in 0..1 :
         source' = LeBytes(magic, U32_SIZE) \o LeBytes(frame_size, U32_SIZE)
                       \o SubSeq(file, PRELUDE_LEN + 1, Len(file)) \o Zeros(pad)
    /\ rpc' = "ready"
    /\ UNCHANGED << writerVars, rd, iter, out, last, hint >>

NextParse ==
    \/ MetadataEncodeStep(MetaInputs)
    \/ EncodeMetadataStep
    \/ WriteDbzFileStep
    \/ DeliverIntact
    \/ Patch
    \/ ForgePrelude
    \/ DbzNew

SpecParse == Init /\ [][NextParse]_vars

\* The byte length of the payload of a Metadata value, from the layout: the
\* fixed region, the schema-definition length, three symbol lists and the
\* mappings, each list behind its u32 count.
RECURSIVE MappingsLen(_)
MappingsLen(mappings) ==
    IF mappings = <<>> THEN 0
    ELSE 22 + 4 + (4 + 4 + 22) * Len(Head(mappings).intervals) + MappingsLen(Tail(mappings))
ExpectedPayloadLen(m) ==
    96 + 4 + (4 + 22 * Len(m.symbols)) + (4 + 22 * Len(m.partial))
        + (4 + 22 * Len(m.not_found)) + (4 + MappingsLen(m.mappings))

\* C12: Prelude invariance.  Whenever an encoder (Metadata::encode,
\* encode_metadata, write_dbz_file) has written metadata to the sink, bytes
\* 0..4 of the sink are 0x184D2A50 little-endian and bytes 4..8 are the
\* little-endian byte length of the metadata payload that follows: the
\* payload has the length its symbols and mappings give it, it ends where
\* the sink ends or the compressed body begins, and a reader consumes
\* exactly the prelude and that many bytes.
C12_PreludeInvariance ==
    (file # <<>> /\ wmeta # <<>>) =>
        LET n == ExpectedPayloadLen(wmeta[1]) IN
        /\ SubSeq(file, 1, 4) = << 80, 42, 77, 24 >>
        /\ SubSeq(file, 5, 8) = << n % 256, n \div 256, 0, 0 >>
        /\ Len(file) >= 8 + n
        /\ pc = "metadata" => Len(file) = 8 + n
        /\ pc = "artifact" => SubSeq(file, 8 + n + 1, 8 + n + 4) = ZSTD_FRAME_MAGIC
        /\ (rd # <<>> /\ source = file) => (rd[1].kind = "Ok" /\ rd[1].consumed = 8 + n)

\* Metadata with two symbols and a mapping with an interval has been
\* encoded and read.
C12_Witness ==
    /\ file # <<>> /\ wmeta # <<>> /\ rd # <<>> /\ source = file
    /\ Len(wmeta[1].symbols) + Len(wmeta[1].mappings) >= 2
    /\ Len(file) > 8 + 96 + 20
    /\ SubSeq(file, 1, 4) = << 80, 42, 77, 24 >>

\* The u32 a prelude holds at bytes k+1..k+4, little-endian.
PreludeWord(k) ==
    source[k + 1] + 256 * source[k + 2] + 65536 * source[k + 3] + 16777216 * source[k + 4]

PreludeErrors ==
    { "Invalid metadata: no zstd magic number",
      "Frame length cannot be shorter than the fixed metadata size" }

\* C13: Metadata::read accepts a prelude only if its magic lies in
\* [0x184D2A50, 0x184D2A60) and its frame_size is at least 96: for any
\* other magic or a smaller frame_size it returns an error having read the
\* 8 bytes of the prelude and no payload byte, and for a magic in the range
\* and a frame_size of 96 or more it does not reject the prelude.
C13_PreludeAcceptance ==
    (rd # <<>> /\ Len(source) >= 8) =>
        LET magic == PreludeWord(0)
            frame_size == PreludeWord(4)
            good == magic >= 407710288 /\ magic < 407710304 /\ frame_size >= 96
        IN  /\ ~good => /\ rd[1].kind = "Err"
                        /\ rd[1].err \in PreludeErrors
                        /\ rd[1].consumed = 8
            /\ good => rd[1].err \notin PreludeErrors

\* A prelude with the magic just past the range has been rejected, with
\* payload behind it.
C13_Witness ==
    /\ rd # <<>> /\ Len(source) > 8 + 96
    /\ PreludeWord(0) = 407710304 /\ PreludeWord(4) >= 96
    /\ rd[1].kind = "Err" /\ rd[1].consumed = 8

\* The prelude of the source, and whether Metadata::read got as far as
\* decode: the prelude passed and the whole payload was there.
FrameSize == PreludeWord(4)
DecodeReached ==
    /\ rd # <<>> /\ Len(source) >= 8
    /\ PreludeWord(0) >= 407710288 /\ PreludeWord(0) < 407710304
    /\ FrameSize >= 96
    /\ Len(source) >= 8 + FrameSize

\* The byte at payload offset k, and the payload field of n bytes there.
PayloadByte(k) == source[8 + k + 1]
PayloadField(k, n) == [j \in 1..n |-> PayloadByte(k + j - 1)]

\* C14: parsing rejects every payload whose version byte (payload offset
\* 3) is greater than 1 and every payload whose first three bytes are not
\* "DBZ"; a payload with version byte <= 1 is not rejected on account of
\* its version, and the Metadata returned has that byte as its version.
C14_VersionCheck ==
    DecodeReached =>
        /\ PayloadByte(3) > 1 => (rd[1].kind = "Err" /\ rd[1].val = <<>>)
        /\ PayloadField(0, 3) # << 68, 66, 90 >>
              => (rd[1].kind = "Err" /\ rd[1].err = "Invalid version string")
        /\ (PayloadField(0, 3) = << 68, 66, 90 >> /\ PayloadByte(3) > 1)
              => rd[1].err = "Can't read newer version of DBZ"
        /\ PayloadByte(3) <= 1 => rd[1].err # "Can't read newer version of DBZ"
        /\ rd[1].kind = "Ok" => rd[1].val.version = PayloadByte(3)

\* A payload of version 2 has been rejected and nothing else is wrong with
\* it.
C14_Witness ==
    /\ DecodeReached /\ wmeta # <<>>
    /\ PayloadByte(3) = 2
    /\ PayloadField(0, 3) = << 68, 66, 90 >>
    /\ rd[1].kind = "Err" /\ rd[1].err = "Can't read newer version of DBZ"

\* The version string, the version and the dataset of the payload pass.
HeaderValid ==
    /\ PayloadField(0, 3) = << 68, 66, 90 >>
    /\ PayloadByte(3) <= 1
    /\ Utf8Valid(PayloadField(4, 16))

\* Which of the four enum fields hold a defined value: the schema word has
\* 12 values, the compression byte 2, the stype bytes 3.
SchemaWord == PayloadByte(20) + 256 * PayloadByte(21)
SchemaDefined == SchemaWord < 12
CompressionDefined == PayloadByte(54) < 2
STypeInDefined == PayloadByte(55) < 3
STypeOutDefined == PayloadByte(56) < 3
EnumsDefined == SchemaDefined /\ CompressionDefined /\ STypeInDefined /\ STypeOutDefined

\* The schema-definition length of a payload of 100 bytes or more is
\* non-zero.
SdlNonZero == PayloadField(96, 4) # << 0, 0, 0, 0 >>

UnsupportedError == "This version of dbz can't parse schema definitions"

\* C15 as stated: whenever the u32 at payload offsets 96..100 is non-zero,
\* parsing fails with the unsupported-feature error.
C15_AsStated ==
    (DecodeReached /\ FrameSize >= 100 /\ SdlNonZero)
        => (rd[1].kind = "Err" /\ rd[1].err = UnsupportedError)

\* The symbol count and the k-th symbol field of a payload whose symbols
\* section starts at payload offset 100.
SymbolCountAt100 ==
    PayloadByte(100) + 256 * PayloadByte(101) + 65536 * PayloadByte(102)
SymbolFieldAt100(k) == PayloadField(104 + 22 * (k - 1), 22)

\* C15: for a payload whose fixed fields before the reserved bytes pass
\* (version string, version, dataset, the four enums), parsing fails with
\* the unsupported-feature error whenever the u32 at payload offsets
\* 96..100 is non-zero; when it is zero the symbols section is parsed from
\* payload offset 100: the symbols returned are as many as the u32 at
\* 100..104 says, each the 22-byte field at 104 + 22k without its NUL
\* padding.
C15_SchemaDefinitionLength ==
    (DecodeReached /\ FrameSize >= 100 /\ HeaderValid /\ EnumsDefined) =>
        /\ SdlNonZero => /\ rd[1].kind = "Err"
                         /\ rd[1].err = UnsupportedError
                         /\ rd[1].val = <<>>
        /\ ~SdlNonZero =>
              /\ rd[1].err # UnsupportedError
              /\ rd[1].kind = "Ok" =>
                    /\ PayloadByte(103) = 0
                    /\ Len(rd[1].val.symbols) = SymbolCountAt100
                    /\ \A k \in 1..Len(rd[1].val.symbols) :
                          LET sym == rd[1].val.symbols[k] IN
                          SymbolFieldAt100(k) = sym \o Zeros(22 - Len(sym))

\* A payload with a non-zero schema-definition length and nothing else
\* wrong has been refused.
C15_Witness ==
    /\ DecodeReached /\ FrameSize >= 100 /\ HeaderValid /\ EnumsDefined
    /\ SdlNonZero
    /\ rd[1].kind = "Err" /\ rd[1].err = UnsupportedError

EnumErrors ==
    { "Failed to read schema", "Failed to parse compression",
      "Failed to read stype_in", "Failed to read stype_out" }

\* C16 as stated: whenever one of the four enum fields holds an undefined
\* value, parsing returns an unknown-enum error and no Metadata.
C16_AsStated ==
    (DecodeReached /\ ~EnumsDefined)
        => (rd[1].kind = "Err" /\ rd[1].err \in EnumErrors /\ rd[1].val = <<>>)

\* C16: for a payload whose version string, version and dataset pass,
\* parsing returns an unknown-enum error (that of the first undefined
\* field in the order schema, compression, stype_in, stype_out) and no
\* Metadata whenever one of the four enum fields holds an undefined value;
\* no payload with an undefined enum value is parsed into a Metadata; and
\* when a Metadata is returned each enum is the variant whose numeric
\* encoding is the stored value.
C16_EnumValidation ==
    DecodeReached =>
        /\ ~EnumsDefined => (rd[1].kind = "Err" /\ rd[1].val = <<>>)
        /\ (HeaderValid /\ ~EnumsDefined) =>
              rd[1].err = (IF ~SchemaDefined THEN "Failed to read schema"
                           ELSE IF ~CompressionDefined THEN "Failed to parse compression"
                           ELSE IF ~STypeInDefined THEN "Failed to read stype_in"
                           ELSE "Failed to read stype_out")
        /\ (HeaderValid /\ EnumsDefined) => rd[1].err \notin EnumErrors
        /\ rd[1].kind = "Ok" =>
              /\ EnumsDefined
              /\ Schemas[SchemaWord + 1] = rd[1].val.schema
              /\ Compressions[PayloadByte(54) + 1] = rd[1].val.compression
              /\ STypes[PayloadByte(55) + 1] = rd[1].val.stype_in
              /\ STypes[PayloadByte(56) + 1] = rd[1].val.stype_out

\* A payload whose schema word is 256 (low byte 0, high byte 1) has been
\* refused for its schema.
C16_Witness ==
    /\ DecodeReached /\ HeaderValid
    /\ PayloadByte(20) = 0 /\ PayloadByte(21) = 1
    /\ rd[1].kind = "Err" /\ rd[1].err = "Failed to read schema"

-----------------------------------------------------------------------------
(* The field decoders called on their own (SpecFn): decode_symbol on a     *)
(* buffer and a cursor, decode_iso8601 on a packed date.  The call and its *)
(* arguments stand in `source`, the result in `rd`.                        *)

\* Bytes a symbol field is made of: NUL, an ASCII letter, a continuation
\* byte that cannot start a character, and the two bytes of U+00E9.
SymbolByteInputs == { 0, 65, 128, 195, 169 }

\* 22-byte fields: up to MaxSymbolChars bytes and NUL padding behind them,
\* the field of the unit test, and fields without any NUL.
SymbolFieldInputs ==
    { c \o Zeros(SYMBOL_CSTR_LEN - Len(c)) : c \in SeqsUpTo(SymbolByteInputs, MaxSymbolChars) }
    \cup { SPX \o Zeros(SYMBOL_CSTR_LEN - Len(SPX)),
           [k \in 1..SYMBOL_CSTR_LEN |-> 66],
           [k \in 1..(SYMBOL_CSTR_LEN - 1) |-> 66] \o << 195 >> }

\* The field stands at the cursor, behind `pos` other bytes.
DecodeSymbolCalls ==
    { [fn |-> "decode_symbol", buffer |-> [k \in 1..pos |-> 255] \o field, pos |-> pos] :
          field \in SymbolFieldInputs, pos \in {0, U32_SIZE} }

YearInputs == { 0, 1, 4, 100, 400, 1900, 2000, 2010, 2015, 2016, 9999, 10000, 214748 }

\* Packed dates: every month number 0..13 and day number 0..32 of the years
\* above (2147483647 is the largest u32 the model holds).
RawDateInputs ==
    { y * 10000 + m * 100 + d : y \in YearInputs \ {214748}, m \in 0..13, d \in 0..32 }
    \cup { 2147480101, 2147481231, 2147483647 }

DecodeIso8601Calls == { [fn |-> "decode_iso8601", raw |-> raw] : raw \in RawDateInputs }

InitFn ==
    /\ pc = "start"
    /\ file = <<>>
    /\ wmeta = <<>>
    /\ wrecs = <<>>
    /\ wres = <<>>
    /\ prevFile = <<>>
    /\ updArgs = <<>>
    /\ rpc = "called"
    /\ source \in DecodeSymbolCalls \cup DecodeIso8601Calls
    /\ rd = <<>>
    /\ iter = <<>>
    /\ out = <<>>
    /\ last = NoItem
    /\ hint = <<>>

\* Metadata::decode_symbol(buffer, &mut pos).
DecodeSymbolStep ==
    /\ rpc = "called" /\ source.fn = "decode_symbol"
    /\ rd' = << DecodeSymbol(source.buffer, source.pos) >>
    /\ rpc' = "returned"
    /\ UNCHANGED << writerVars, source, iter, out, last, hint >>

\* Metadata::decode_iso8601(raw).
DecodeIso8601Step ==
    /\ rpc = "called" /\ source.fn = "decode_iso8601"
    /\ rd' = << DecodeIso8601(source.raw) >>
    /\ rpc' = "returned"
    /\ UNCHANGED << writerVars, source, iter, out, last, hint >>

NextFn ==
    \/ DecodeSymbolStep
    \/ DecodeIso8601Step

SpecFn == InitFn /\ [][NextFn]_vars

\* decode_symbol / decode_iso8601 has returned.
SymbolReturned == rpc = "returned" /\ source.fn = "decode_symbol"
DateReturned == rpc = "returned" /\ source.fn = "decode_iso8601"

\* The 22 bytes at the cursor of the call.
FieldAtCursor == SubSeq(source.buffer, source.pos + 1, source.pos + 22)

\* C17: decode_symbol on a 22-byte field at the cursor.  If the 22 bytes
\* are valid UTF-8 it returns the text with all trailing NUL bytes removed
\* (the field is the text and nothing but NUL behind it, and the text does
\* not end in NUL) and the cursor has advanced by exactly 22; if they are
\* not, it returns the invalid-UTF-8 error and the cursor is where it was.
\* The field "SPX.1.2" of the unit test gives that text, and the field
\* that starts with 0x80 gives the error.
C17_DecodeSymbol ==
    SymbolReturned =>
        LET r == rd[1] IN
        /\ Utf8Valid(FieldAtCursor) =>
              /\ r.kind = "Ok"
              /\ FieldAtCursor = r.val \o Zeros(22 - Len(r.val))
              /\ (r.val = <<>> \/ r.val[Len(r.val)] # 0)
              /\ r.pos = source.pos + 22
        /\ ~Utf8Valid(FieldAtCursor) =>
              /\ r.kind = "Err"
              /\ r.err = "Failed to decode bytes"
              /\ r.pos = source.pos
        /\ FieldAtCursor = << 83, 80, 88, 46, 49, 46, 50 >> \o Zeros(15)
              => (r.kind = "Ok" /\ r.val = << 83, 80, 88, 46, 49, 46, 50 >>)
        /\ FieldAtCursor[1] = 128 => r.kind = "Err"
        /\ (FieldAtCursor[1] = 195 /\ FieldAtCursor[2] = 0) => r.kind = "Err"

\* decode_symbol has returned a text with a NUL inside it, from a field that
\* does not stand at the start of the buffer.
C17_Witness ==
    /\ SymbolReturned /\ source.pos > 0
    /\ rd[1].kind = "Ok"
    /\ Len(rd[1].val) = 3 /\ rd[1].val[2] = 0
    /\ rd[1].pos = source.pos + 22

\* The parts of the packed date of the call.
RawYear == source.raw \div 10000
RawMonth == (source.raw % 10000) \div 100
RawDay == source.raw % 100
RawMonthInRange == RawMonth >= 1 /\ RawMonth <= 12
RawDayValid ==
    /\ RawDay >= 1
    /\ RawDay <= (IF RawMonth \in {4, 6, 9, 11} THEN 30
                  ELSE IF RawMonth # 2 THEN 31
                  ELSE IF (RawYear % 4 = 0 /\ RawYear % 100 # 0) \/ RawYear % 400 = 0
                       THEN 29 ELSE 28)

\* C18 as stated: for any raw, decode_iso8601 returns the calendar date
\* (raw / 10000, (raw % 10000) / 100, raw % 100) when the month is in 1..12
\* and the day is a valid day of that month and year.
C18_AsStated ==
    (DateReturned /\ RawMonthInRange /\ RawDayValid)
        => (rd[1].kind = "Ok"
            /\ rd[1].val = [year |-> RawYear, month |-> RawMonth, day |-> RawDay])

\* C18: decode_iso8601(raw) splits raw as year = raw / 10000, month =
\* (raw % 10000) / 100, day = raw % 100.  It returns exactly that calendar
\* date when the month is in 1..12, the day is a valid day of that month
\* and year and the year is at most 9999; it fails with the invalid-month
\* error when the month is out of range, and with the
\* not-a-valid-date error when the month is in range and the day is
\* invalid or the year is above 9999.  20151031 gives 2015-10-31;
\* 20101305 fails on the month and 20100600 on the date.
C18_DecodeIso8601 ==
    DateReturned =>
        LET r == rd[1] IN
        /\ (RawMonthInRange /\ RawDayValid /\ RawYear <= 9999) =>
              /\ r.kind = "Ok"
              /\ r.val = [year |-> RawYear, month |-> RawMonth, day |-> RawDay]
        /\ ~RawMonthInRange => (r.kind = "Err" /\ r.err = "Invalid month")
        /\ (RawMonthInRange /\ (~RawDayValid \/ RawYear > 9999)) =>
              (r.kind = "Err" /\ r.err = "Couldn't convert to a valid date")
        /\ source.raw = 20151031 => r = Ok([year |-> 2015, month |-> 10, day |-> 31])
        /\ source.raw = 20101305 => (r.kind = "Err" /\ r.err = "Invalid month")
        /\ source.raw = 20100600 =>
              (r.kind = "Err" /\ r.err = "Couldn't convert to a valid date")

\* decode_iso8601 has refused the 30th of February of a leap year.
C18_Witness ==
    /\ DateReturned /\ source.raw = 20160230
    /\ rd[1].kind = "Err" /\ rd[1].err = "Couldn't convert to a valid date"

\* C19: Date round-trip.  For every valid calendar date d from 0001-01-01
\* to 9999-12-31, decode_iso8601 called with year * 10000 + month * 100 +
\* day returns d.
C19_DateRoundTrip ==
    DateReturned =>
        \A y \in YearInputs \cap (1..9999), m \in 1..12 :
            source.raw \div 100 = y * 100 + m =>
                \A d \in 1..DaysInMonth(y, m) :
                    source.raw = y * 10000 + m * 100 + d =>
                        rd[1] = Ok([year |-> y, month |-> m, day |-> d])

\* The 29th of February 2000 and the last day of 9999 come back.
C19_Witness ==
    /\ DateReturned
    /\ source.raw \in { 20000229, 99991231, 10101 }
    /\ rd[1].kind = "Ok"
    /\ rd[1].val.year * 10000 + rd[1].val.month * 100 + rd[1].val.day = source.raw

\* The payload Metadata::read handed to decode.
PayloadRead == SubSeq(source, 8 + 1, 8 + FrameSize)

\* C20: every reservation made while parsing a payload is for a count that
\* was checked against the bytes remaining: the elements reserved for, at
\* their encoded size, fit between the cursor and the end of the payload.
C20_ReservationsBounded ==
    DecodeReached =>
        \A k \in 1..Len(Reserved(PayloadRead)) :
            LET r == Reserved(PayloadRead)[k] IN
            r.count <= (FrameSize - r.at) \div r.size

-----------------------------------------------------------------------------
(* The record headers the Python shim builds.                              *)

\* write_dbz_file has just written an artifact (the only step that takes
\* the writer from "start" to "artifact").
ShimWrote == pc = "start" /\ pc' = "artifact"

\* C21: for every record variant T the shim builds, header_from_dict sets
\* rtype to T's type-ID and length to size_of(T) / 4 without loss:
\* size_of(T) is a multiple of 4 and size_of(T) / 4 fits in 8 bits, so
\* length * 4 = size_of(T), and the bytes of the record pass the record
\* constructor's rtype and length validation as a T.
C21_HeaderFromDict ==
    [][ShimWrote =>
          LET T == VariantOf(wmeta'[1].schema)
              S == SizeOf(T)
          IN
          /\ T \in Variants
          /\ S % 4 = 0
          /\ S \div 4 < 256
          /\ \A k \in 1..Len(wrecs') :
                LET rec == wrecs'[k] IN
                /\ rec.hd.rtype = TypeId(T)
                /\ rec.hd.length = S \div 4
                /\ rec.hd.length * 4 = S
                /\ Len(RecordBytes(rec)) = S
                /\ TickNew(RecordBytes(rec)) = Ok(T)
                /\ TryFromTick(T, TickNew(RecordBytes(rec)).val).kind = "Ok"]_vars

\* The shim has written records of the largest variant (368 bytes, 92
\* words) and of the smallest (48 bytes, 12 words).
C21_Witness ==
    /\ pc = "artifact"
    /\ wmeta[1].schema \in {"Mbp10", "Trades"}
    /\ Len(wrecs) = 2
    /\ wrecs[1].hd.length \in {12, 92}
    /\ wrecs[2].hd.rtype \in {0, 10}

-----------------------------------------------------------------------------
(* What a successful Metadata::read leaves of the source.                  *)

\* The payload Metadata::read hands to decode, and the cursor behind the
\* mappings section of it (the cursors the section decoders return).
FramePayload == SubSeq(source, 8 + 1, 8 + FrameSize)
SectionsEnd(payload) ==
    LET symbols == DecodeRepeatedSymbolCstr(payload, 100)
        partial == DecodeRepeatedSymbolCstr(payload, symbols.pos)
        not_found == DecodeRepeatedSymbolCstr(payload, partial.pos)
        mappings == DecodeSymbolMappings(payload, not_found.pos)
    IN  mappings.pos
ReadSucceeded == rd # <<>> /\ rd[1].kind = "Ok"

\* C22: a successful Metadata::read (and so Dbz::new) consumes exactly
\* 8 + frame_size bytes of the source, whatever the section counts in the
\* payload say, and so leaves the source at the first byte of the record
\* body: what is left of an intact artifact is the compressed body the
\* writer put behind the metadata.  Payload bytes behind the mappings
\* section are ignored: the Metadata is the one the payload cut off behind
\* the mappings section decodes to.
C22_ReadConsumesFrame ==
    ReadSucceeded =>
        /\ DecodeReached
        /\ rd[1].consumed = 8 + FrameSize
        /\ (pc = "artifact" /\ source = file)
              => SubSeq(source, rd[1].consumed + 1, Len(source))
                     = ZstdEncode(ConcatRecordBytes(wrecs))
        /\ SectionsEnd(FramePayload) <= FrameSize
        /\ Decode(SubSeq(FramePayload, 1, SectionsEnd(FramePayload))) = Ok(rd[1].val)

\* A read has succeeded on a payload with a changed count: bytes are left
\* behind the mappings section and the Metadata is not the one encoded.
C22_Witness ==
    /\ ReadSucceeded
    /\ source # file /\ Len(source) = Len(file)
    /\ SectionsEnd(FramePayload) < FrameSize
    /\ rd[1].val # wmeta[1]
    /\ rd[1].consumed = Len(source)

-----------------------------------------------------------------------------
(* The iterator after it has returned None.                                *)

\* The last call of next() returned None.
NoneReturned == rpc = "iterating" /\ last.cause # "none" /\ ~last.some

\* C23: once next() has returned None, for whatever reason (exhausted
\* body, truncated tail, malformed record, record of another variant),
\* every later call of next() returns None as well: no record is yielded
\* after end-of-stream has been reported.
C23_NoneIsFinal == [][NoneReturned => (~last'.some /\ out' = out)]_vars

\* The part of it that the read of the stream decides: after a None from a
\* read that found less than a record (end of the stream, a truncated tail
\* or an I/O error), every later call returns None.
ReadFailureIsFinal ==
    [][(NoneReturned /\ last.cause \in {"eof", "short read", "io error"})
          => (~last'.some /\ out' = out)]_vars

-----------------------------------------------------------------------------
(* The running index of the iterator.                                      *)

Iterating == rpc = "iterating"

\* C24 as stated: at every point of an iteration the index i equals the
\* number of records next() has yielded so far.
C24_AsStated == Iterating => iter[1].i = Len(out)

\* The whole records the iterator has read so far (the stream up to the
\* decoder's position, cut into records of size_of::<T>() bytes, numbered
\* from 0), those of them the record constructor accepts, and those that
\* are of variant T.
ChunksRead == 0..((iter[1].taken \div SizeOf(iter[1].T)) - 1)
ChunkAt(k) == Slice(Body.data, k * SizeOf(iter[1].T), SizeOf(iter[1].T))
Decoded == { k \in ChunksRead : TickNew(ChunkAt(k)).kind = "Ok" }
OfVariant == { k \in Decoded : TickNew(ChunkAt(k)).val = iter[1].T }

\* By how much one call of next() advanced i.
IndexStep == iter'[1].i - iter[1].i

\* C24, amended: i starts at 0 and at every point of an iteration equals
\* the number of records next() has read that the record constructor
\* accepted, yielded or not: it increases by exactly one on each call that
\* yields a record and on each call that returns None for a record of
\* another variant, and is unchanged by a call that returns None for the
\* end of the stream, a truncated tail, an I/O error or a malformed
\* record.  The records yielded are those of variant T among them, so i is
\* never less than the number yielded.
C24_IndexCountsDecoded ==
    /\ [](Iterating =>
            /\ iter[1].i = Cardinality(Decoded)
            /\ Len(out) = Cardinality(OfVariant)
            /\ iter[1].i >= Len(out))
    /\ [][(rpc = "opened" /\ rpc' = "iterating") => iter'[1].i = 0]_vars
    /\ [][(Iterating /\ << iter, last, out >>' # << iter, last, out >>) =>
            /\ last'.some => (IndexStep = 1 /\ out' = Append(out, last'.rec))
            /\ last'.cause = "wrong variant" => (IndexStep = 1 /\ out' = out)
            /\ last'.cause \in {"eof", "short read", "io error", "malformed"}
                  => (IndexStep = 0 /\ out' = out)]_vars

\* A record of another variant has been passed over and the record behind
\* it yielded: i is 2 and one record has been yielded.
C24_Witness ==
    /\ Iterating
    /\ iter[1].i = 2 /\ Len(out) = 1
    /\ last.some
    /\ Cardinality(Decoded) = 2 /\ Cardinality(OfVariant) = 1

====
